---- MODULE Spec2Model ----
(***************************************************************************)
(* Model of the option-chain background service (background_service.py):   *)
(* the main scheduling loop (start), the fast index refresh thread, the     *)
(* batch/worker-pool fetcher, the per-symbol pipeline and the expiry cache. *)
(*                                                                          *)
(* Wall-clock time is abstracted to (day, tod): tod is a slot of the local  *)
(* day that keeps every comparison the code makes against 09:15 and 15:30:  *)
(*   0 = before 09:15, 1 = 09:15 up to but excluding 15:30,                 *)
(*   2 = exactly 15:30, 3 = after 15:30.                                    *)
(* Sleeps are not actions: time passes through Tick between any two steps.  *)
(***************************************************************************)
EXTENDS Integers, Sequences, FiniteSets, TLC

\* ---------------------------------------------------------------- bounds
\* last day (counted from day 0) the clock may reach
MaxDay == 1
\* number of stock symbols the instrument download may list
NumStocks == 2
\* largest number of stock symbols of one pass through the worker pool
MaxSymbols == 49
\* last tick the engine's clock may reach, and the ticks that make a second
MaxClk == 3
TicksPerSecond == 2
\* most rows the history table may hold
MaxRows == 3
\* the longest history list handed to the detector
MaxHist == 12

\* ------------------------------------------------------ program constants
\* market_open = 09:15 is the first instant of slot 1
OpenSlot == 1
\* market_close = 15:30 is slot 2
CloseSlot == 2
\* the slot after 15:30, the last of a day
LastSlot == CloseSlot + 1
\* weekday() >= 5 is Saturday or Sunday
Saturday == 5
max_consecutive_errors == 10
\* ThreadPoolExecutor(max_workers=5)
max_workers == 5
batch_size == 43
\* _get_latest_expiry and _get_all_expiries: max_retries = 2
max_retries == 2
\* _fetch_and_store_option_chain: max_retries = 3
fetch_max_retries == 3
\* _process_symbol: _get_all_expiries(..., max_expiries=2)
max_expiries == 2
\* _get_latest_expiry: retry_wait = 5 * (2 ** attempt), in seconds
rate_limit_base == 5

realtime_indices == {"NIFTY", "BANKNIFTY", "FINNIFTY", "SENSEX", "MIDCPNIFTY"}

\* the indices _get_fo_instruments adds by hand after a successful download
ManualIndices == <<"NIFTY", "BANKNIFTY", "FINNIFTY", "MIDCPNIFTY", "SENSEX">>
\* the mapping it returns when the download fails
FallbackIndices == <<"NIFTY", "BANKNIFTY", "FINNIFTY", "MIDCPNIFTY">>

StockNames == <<"RELIANCE", "TCS", "INFY", "SBIN">>
StockUniverse == {StockNames[i] : i \in 1..NumStocks}

ErrorClasses == {"credential", "network", "other"}
RefreshOutcomes == {"extended", "managed", "none", "error"}

VARIABLES
    \* clock and configuration
    wd0, day, tod, force_mode,
    \* service state
    running, executor, db, process,
    \* credential held by the API client and by self.credentials
    api_token, cred_token,
    \* main scheduling loop (start)
    slowPc, consecutive_errors, slowErr, slowPending, tokenChecked,
    \* fast index refresh thread
    fastPc, fastSymbols, fastIdx, fastInFlight,
    \* _fetch_all_symbols through the executor: len(symbols), i, the futures
    \* submitted of the current batch, and per batch <<queued, running, done>>
    poolN, batchI, submitted, tasks,
    \* _fetch_all_symbols: rate_limit_hit; whether every future of the
    \* current batch that has completed met the rate limit; the seconds slept
    \* for a rate limit before the current batch was submitted
    rate_limit_hit, limited_only, cooldown,
    \* _process_symbol: the threads that run it, each thread's position and
    \* locals, self.expiry_cache, and the entry the resolver last stored per key
    workers, thr, expiry_cache, lastStored,
    \* the expiry dates of the contracts the upstream lists at present
    upstream,
    \* the derivative engine: the time in ticks and the rows of
    \* gamma_exposure_history of one (symbol, expiry)
    clk, geh,
    \* the detector: one call of calculate_z_score_or_threshold and one call
    \* of detect_gamma_blast, each with its arguments and what it returned
    score_call, detect_call,
    \* the resolver: the expiry values of a contract list, today, the count
    \* asked for, and what _get_all_expiries and _get_latest_expiry returned
    resolve_call,
    \* the derivative engine's rates: one computation with its inputs
    rate_call,
    \* the blast signal of one run of _calculate_and_store_gamma_exposure:
    \* the stored rows, the snapshot, what the detector was called with and
    \* returned, and the rows written
    signal_call,
    \* the futures of _process_symbol the main loop has submitted and that
    \* have not completed, counted per symbol
    slowRunning,
    \* observations
    stopCause, stopTod, offHoursCall, gate, needRefresh, fastFailures

clockVars == <<wd0, day, tod, force_mode>>
svcVars   == <<running, executor, db, process>>
tokenVars == <<api_token, cred_token>>
slowVars  == <<slowPc, consecutive_errors, slowErr, slowPending, tokenChecked>>
fastVars  == <<fastPc, fastSymbols, fastIdx, fastInFlight>>
poolVars  == <<poolN, batchI, submitted, tasks>>
rateVars  == <<rate_limit_hit, limited_only, cooldown>>
runVars   == <<slowRunning>>
pipeVars  == <<workers, thr, expiry_cache, lastStored, upstream>>
engVars   == <<clk, geh>>
detVars   == <<score_call, detect_call, resolve_call, rate_call, signal_call>>
obsVars   == <<stopCause, stopTod, offHoursCall, gate, needRefresh, fastFailures>>
vars == <<clockVars, svcVars, tokenVars, slowVars, fastVars, poolVars, rateVars,
          runVars,
          pipeVars, engVars, detVars, obsVars>>

\* ------------------------------------------------------------------ clock
Weekday == (wd0 + day) % 7

\* the market-hours predicate of the specification: a weekday, 09:15..15:30
WithinMarketHours == Weekday < Saturday /\ tod >= OpenSlot /\ tod <= CloseSlot

is_market_open_no_weekend == force_mode \/ (tod >= OpenSlot /\ tod <= CloseSlot)

\* _is_market_open
is_market_open ==
    IF force_mode THEN TRUE
    ELSE IF Weekday >= Saturday THEN FALSE
    ELSE OpenSlot <= tod /\ tod <= CloseSlot

AfterMarketCloseOrAt == tod >= CloseSlot

\* start(): current_time > market_close
AfterMarketClose == tod > CloseSlot

Tick ==
    /\ process = "alive"
    /\ IF tod < LastSlot
         THEN tod' = tod + 1 /\ day' = day
         ELSE day < MaxDay /\ day' = day + 1 /\ tod' = 0
    /\ UNCHANGED <<runVars, rateVars, detVars, engVars, pipeVars, wd0, force_mode, svcVars, tokenVars, slowVars, fastVars, obsVars,
                   poolVars>>

\* ------------------------------------------------------------- credential
\* _refresh_access_token_if_needed: the tokens after the call and its result
RefreshTokens(outcome, api, cred) ==
    CASE outcome = "extended" ->
            [api |-> "extended_token", cred |-> "extended_token", ok |-> TRUE]
      [] outcome = "managed" ->
            [api |-> "managed_token", cred |-> "managed_token", ok |-> TRUE]
      [] OTHER ->
            [api |-> cred, cred |-> cred, ok |-> FALSE]

\* ------------------------------------------------------------ symbol sets
\* _get_fo_instruments: the symbols of the mapping, in insertion order for
\* the indices; stocks is the set the download listed, ok whether it worked
FoIndexOrder(ok) == IF ok THEN ManualIndices ELSE FallbackIndices
FoSymbols(ok, stocks) ==
    IF ok THEN stocks \cup {ManualIndices[i] : i \in 1..Len(ManualIndices)}
    ELSE {FallbackIndices[i] : i \in 1..Len(FallbackIndices)}

\* every symbol a mapping may hold
AllSymbols == StockUniverse \cup realtime_indices

SlowFilterNone(all) == all

\* _fetch_all_symbols: symbols not in realtime_indices
SlowFilter(all) == {s \in all : s \notin realtime_indices}

\* _fast_index_refresh_loop: symbols in realtime_indices, in mapping order
FastFilter(order) == SelectSeq(order, LAMBDA s : s \in realtime_indices)

\* an upstream expiry-list or chain-snapshot call is issued now
IssueCall == offHoursCall' = (offHoursCall \/ ~WithinMarketHours)

\* ------------------------------------------------------------ worker pool
BatchIds == 0..(MaxSymbols \div batch_size)
PassSizes == {batch_size, MaxSymbols}

Queued(k)   == tasks[k][1]
Running(k)  == tasks[k][2]
Finished(k) == tasks[k][3]

RECURSIVE SumRunning(_)
SumRunning(k) == IF k < 0 THEN 0 ELSE Running(k) + SumRunning(k - 1)
TotalRunning == SumRunning(MaxSymbols \div batch_size)

\* no future of the executor is queued or executing
PoolIdle == \A k \in BatchIds : Queued(k) = 0 /\ Running(k) = 0

\* the batch symbols[i:i + batch_size]
CurrentBatch == batchI \div batch_size
BatchLen == IF poolN - batchI < batch_size THEN poolN - batchI ELSE batch_size

WorkerFreeAlways == TRUE

\* the executor runs at most max_workers futures at a time
WorkerFree == TotalRunning < max_workers

BatchCompleteNoWait == TRUE

\* `for future in as_completed(batch_futures)` has yielded every future
BatchComplete == Finished(CurrentBatch) = BatchLen

\* ------------------------------------------------------------------- stop
\* stop(): clears running; the caller then waits in executor.shutdown
StopBegin(cause) ==
    /\ running' = FALSE
    /\ stopCause' = cause
    /\ stopTod' = tod
    /\ slowPc' = "stopping"

\* SIGINT / SIGTERM: _signal_handler runs stop() in the main thread
Signal ==
    /\ process = "alive"
    /\ running
    /\ slowPc \notin {"stopping", "exiting", "done"}
    /\ StopBegin("signal")
    /\ UNCHANGED <<runVars, rateVars, detVars, engVars, pipeVars, clockVars, executor, db, process, tokenVars,
                   consecutive_errors, slowErr, slowPending, tokenChecked,
                   fastVars, offHoursCall, gate, needRefresh, fastFailures,
                   poolVars>>

\* stop(), after executor.shutdown(wait=True) returned: db_manager.close()
StopJoin ==
    /\ slowPc = "stopping"
    /\ PoolIdle
    /\ executor' = "shutdown"
    /\ db' = "closed"
    /\ slowPc' = "exiting"
    /\ UNCHANGED <<runVars, rateVars, detVars, engVars, pipeVars, clockVars, running, process, tokenVars,
                   consecutive_errors, slowErr, slowPending, tokenChecked,
                   fastVars, obsVars,
                   poolVars>>

\* the main thread leaves start() (break, or SystemExit from the handler);
\* the interpreter exits and the daemon index thread dies with it
ProcessExit ==
    /\ slowPc = "exiting"
    /\ slowPc' = "done"
    /\ process' = "exited"
    /\ fastPc' = IF fastPc = "stopped" THEN "stopped" ELSE "killed"
    /\ UNCHANGED <<runVars, rateVars, detVars, engVars, pipeVars, clockVars, running, executor, db, tokenVars,
                   consecutive_errors, slowErr, slowPending, tokenChecked,
                   fastSymbols, fastIdx, fastInFlight, obsVars,
                   poolVars>>

\* ------------------------------------------------------------- main loop
\* start(): one turn of `while self.running` up to the market check
SlowIterate ==
    /\ process = "alive"
    /\ slowPc = "loop"
    /\ running
    /\ \E due \in (IF tokenChecked THEN BOOLEAN ELSE {TRUE}),
          outcome \in RefreshOutcomes :
          LET r == RefreshTokens(outcome, api_token, cred_token) IN
          /\ tokenChecked' = TRUE
          /\ IF due
               THEN api_token' = r.api /\ cred_token' = r.cred
               ELSE UNCHANGED tokenVars
          /\ needRefresh' = IF due THEN [slow |-> FALSE, fast |-> FALSE]
                            ELSE needRefresh
    /\ IF ~is_market_open
         THEN IF AfterMarketClose
                THEN StopBegin("market_closed")
                ELSE /\ slowPc' = "closed_wait"
                     /\ UNCHANGED <<running, stopCause, stopTod>>
         ELSE /\ slowPc' = "fetch"
              /\ UNCHANGED <<running, stopCause, stopTod>>
    /\ UNCHANGED <<runVars, rateVars, detVars, engVars, pipeVars, clockVars, executor, db, process, consecutive_errors,
                   slowErr, slowPending, fastVars, offHoursCall, gate,
                   fastFailures,
                   poolVars>>

\* time.sleep(60); continue
SlowWake ==
    /\ process = "alive"
    /\ slowPc = "closed_wait"
    /\ slowPc' = "loop"
    /\ UNCHANGED <<runVars, rateVars, detVars, engVars, pipeVars, clockVars, svcVars, tokenVars, consecutive_errors, slowErr,
                   slowPending, tokenChecked, fastVars, obsVars,
                   poolVars>>

\* _fetch_all_symbols up to the first batch: market check, symbol list, filter
SlowFetchGate ==
    /\ process = "alive"
    /\ slowPc = "fetch"
    /\ IF ~is_market_open
         THEN /\ slowPc' = "cadence"
              /\ consecutive_errors' = 0
              /\ UNCHANGED <<slowPending, gate>>
         ELSE \E ok \in BOOLEAN, stocks \in SUBSET StockUniverse :
                LET symbols == SlowFilter(FoSymbols(ok, stocks)) IN
                IF symbols = {}
                  THEN /\ slowPc' = "cadence"
                       /\ consecutive_errors' = 0
                       /\ UNCHANGED <<slowPending, gate>>
                  ELSE /\ slowPc' = "pass"
                       /\ slowPending' = symbols
                       /\ gate' = [gate EXCEPT !.slow = WithinMarketHours]
                       /\ UNCHANGED consecutive_errors
    /\ UNCHANGED <<runVars, rateVars, detVars, engVars, pipeVars, clockVars, svcVars, tokenVars, slowErr, tokenChecked,
                   fastVars, stopCause, stopTod, offHoursCall, needRefresh,
                   fastFailures,
                   poolVars>>

\* one symbol of the pass is processed (_process_symbol through the pool)
SlowProcess ==
    /\ process = "alive"
    /\ slowPc = "pass"
    /\ \E s \in slowPending : slowPending' = slowPending \ {s}
    /\ IssueCall
    /\ UNCHANGED <<runVars, rateVars, detVars, engVars, pipeVars, clockVars, svcVars, tokenVars, slowPc, consecutive_errors,
                   slowErr, tokenChecked, fastVars, stopCause, stopTod, gate,
                   needRefresh, fastFailures,
                   poolVars>>

\* _fetch_all_symbols returned: consecutive_errors = 0
SlowPassDone ==
    /\ process = "alive"
    /\ slowPc = "pass"
    /\ slowPending = {}
    /\ slowPc' = "cadence"
    /\ consecutive_errors' = 0
    /\ UNCHANGED <<runVars, rateVars, detVars, engVars, pipeVars, clockVars, svcVars, tokenVars, slowErr, slowPending,
                   tokenChecked, fastVars, obsVars,
                   poolVars>>

\* sleep max(0, refresh_interval - elapsed), then the next turn
SlowCadence ==
    /\ process = "alive"
    /\ slowPc = "cadence"
    /\ slowPc' = "loop"
    /\ UNCHANGED <<runVars, rateVars, detVars, engVars, pipeVars, clockVars, svcVars, tokenVars, consecutive_errors, slowErr,
                   slowPending, tokenChecked, fastVars, obsVars,
                   poolVars>>

\* an exception escapes _fetch_all_symbols
SlowRaise ==
    /\ process = "alive"
    /\ slowPc \in {"fetch", "pass"}
    /\ \E c \in ErrorClasses :
          /\ slowErr' = c
          /\ needRefresh' = [needRefresh EXCEPT !.slow = (c = "credential")]
    /\ slowPc' = "except"
    /\ slowPending' = {}
    /\ UNCHANGED <<runVars, rateVars, detVars, engVars, pipeVars, clockVars, svcVars, tokenVars, consecutive_errors,
                   tokenChecked, fastVars, stopCause, stopTod, offHoursCall,
                   gate, fastFailures,
                   poolVars>>

ErrorLimitSame(is_token_error) == max_consecutive_errors

\* error_limit = max_errors_for_token if is_token_error else max_consecutive_errors
ErrorLimit(is_token_error) ==
    IF is_token_error THEN max_consecutive_errors * 2 ELSE max_consecutive_errors

\* start(): the `except Exception as fetch_error` handler
SlowHandleError ==
    /\ process = "alive"
    /\ slowPc = "except"
    /\ \E o1 \in RefreshOutcomes, file_has_refresh_token \in BOOLEAN,
          o2 \in RefreshOutcomes :
         LET n  == consecutive_errors + 1
             is_token_error == slowErr = "credential"
             r1 == RefreshTokens(o1, api_token, cred_token)
             r2 == RefreshTokens(o2, r1.api, r1.cred)
         IN
         IF is_token_error
           THEN /\ needRefresh' = [slow |-> FALSE, fast |-> FALSE]
                /\ IF r1.ok
                     THEN \* counter reset, then the budget check
                          /\ api_token' = r1.api /\ cred_token' = r1.cred
                          /\ consecutive_errors' = 0
                          /\ slowPc' = "cadence"
                          /\ UNCHANGED <<running, stopCause, stopTod>>
                     ELSE IF file_has_refresh_token /\ r2.ok
                       THEN \* refreshed with the token file: continue
                            /\ api_token' = r2.api /\ cred_token' = r2.cred
                            /\ consecutive_errors' = 0
                            /\ slowPc' = "loop"
                            /\ UNCHANGED <<running, stopCause, stopTod>>
                       ELSE /\ api_token' = (IF file_has_refresh_token
                                             THEN r2.api ELSE r1.api)
                            /\ cred_token' = (IF file_has_refresh_token
                                              THEN r2.cred ELSE r1.cred)
                            /\ consecutive_errors' = n
                            /\ IF n >= ErrorLimit(TRUE)
                                 THEN StopBegin("budget")
                                 ELSE /\ slowPc' = "cadence"
                                      /\ UNCHANGED <<running, stopCause, stopTod>>
           ELSE /\ UNCHANGED <<tokenVars, needRefresh>>
                /\ consecutive_errors' = n
                /\ IF n >= ErrorLimit(FALSE)
                     THEN StopBegin("budget")
                     ELSE /\ slowPc' = "cadence"
                          /\ UNCHANGED <<running, stopCause, stopTod>>
    /\ slowErr' = "none"
    /\ UNCHANGED <<runVars, rateVars, detVars, engVars, pipeVars, clockVars, executor, db, process, slowPending,
                   tokenChecked, fastVars, offHoursCall, gate, fastFailures,
                   poolVars>>

\* ------------------------------------- the futures of a pass, per symbol
\* a pass of at most batch_size symbols is one batch.
\* future = self.executor.submit(self._process_symbol, symbol_config): each
\* symbol of the list once
RunSubmit ==
    /\ process = "alive"
    /\ slowPc = "pass"
    /\ \E s \in slowPending :
          /\ slowRunning[s] < 2
          /\ slowPending' = slowPending \ {s}
          /\ slowRunning' = [slowRunning EXCEPT ![s] = @ + 1]
    /\ IssueCall
    /\ UNCHANGED <<rateVars, detVars, engVars, pipeVars, clockVars, svcVars,
                   tokenVars, slowPc, consecutive_errors, slowErr,
                   tokenChecked, fastVars, stopCause, stopTod, gate,
                   needRefresh, fastFailures, poolVars>>

\* _process_symbol returns in its worker thread: the future completes
RunFinish ==
    /\ process = "alive"
    /\ \E s \in AllSymbols :
          /\ slowRunning[s] > 0
          /\ slowRunning' = [slowRunning EXCEPT ![s] = @ - 1]
    /\ UNCHANGED <<rateVars, detVars, engVars, pipeVars, clockVars, svcVars,
                   tokenVars, slowVars, fastVars, obsVars, poolVars>>

PassJoinedNoWait == TRUE

\* `for future in as_completed(batch_futures)` is exhausted
PassJoined == \A s \in AllSymbols : slowRunning[s] = 0

\* _fetch_all_symbols returns after the batch: consecutive_errors = 0
RunPassDone ==
    /\ process = "alive"
    /\ slowPc = "pass"
    /\ slowPending = {}
    /\ PassJoined
    /\ slowPc' = "cadence"
    /\ consecutive_errors' = 0
    /\ UNCHANGED <<runVars, rateVars, detVars, engVars, pipeVars, clockVars,
                   svcVars, tokenVars, slowErr, slowPending, tokenChecked,
                   fastVars, obsVars, poolVars>>

\* ------------------------------------------------- batches through the pool
\* _fetch_all_symbols up to the first batch, for a pass of poolN stock symbols
PoolFetchGate ==
    /\ process = "alive"
    /\ slowPc = "fetch"
    /\ is_market_open
    /\ poolN > 0
    /\ batchI' = 0
    /\ submitted' = 0
    /\ tasks' = [k \in BatchIds |-> <<0, 0, 0>>]
    /\ slowPc' = "submit"
    /\ gate' = [gate EXCEPT !.slow = WithinMarketHours]
    /\ rate_limit_hit' = FALSE
    /\ limited_only' = TRUE
    /\ cooldown' = 0
    /\ UNCHANGED <<runVars, detVars, engVars, pipeVars, clockVars, svcVars, tokenVars, consecutive_errors, slowErr,
                   slowPending, tokenChecked, fastVars, poolN, stopCause,
                   stopTod, offHoursCall, needRefresh, fastFailures>>

\* future = self.executor.submit(self._process_symbol, symbol_config)
PoolSubmit ==
    /\ process = "alive"
    /\ slowPc = "submit"
    /\ submitted < BatchLen
    /\ submitted' = submitted + 1
    /\ tasks' = [tasks EXCEPT ![CurrentBatch][1] = @ + 1]
    /\ UNCHANGED <<runVars, rateVars, detVars, engVars, pipeVars, clockVars, svcVars, tokenVars, slowVars, fastVars, poolN,
                   batchI, obsVars>>

\* the whole batch is submitted: wait in as_completed
PoolSubmitDone ==
    /\ process = "alive"
    /\ slowPc = "submit"
    /\ submitted = BatchLen
    /\ slowPc' = "wait"
    /\ UNCHANGED <<runVars, rateVars, detVars, engVars, pipeVars, clockVars, svcVars, tokenVars, consecutive_errors, slowErr,
                   slowPending, tokenChecked, fastVars, poolVars, obsVars>>

\* a free worker thread takes the oldest queued future
WorkerStart ==
    /\ process = "alive"
    /\ WorkerFree
    /\ \E k \in BatchIds :
          /\ Queued(k) > 0
          /\ \A j \in BatchIds : j < k => Queued(j) = 0
          /\ tasks' = [tasks EXCEPT ![k] = <<@[1] - 1, @[2] + 1, @[3]>>]
    /\ UNCHANGED <<runVars, rateVars, detVars, engVars, pipeVars, clockVars, svcVars, tokenVars, slowVars, fastVars, poolN,
                   batchI, submitted, obsVars>>

\* what a call of _process_symbol ends with: it returns True, it returns
\* False, or it returns False after the upstream answered with the rate limit
ProcessOutcomes == {"true", "false", "rate_limited"}

\* delay_on_rate_limit = 30
delay_on_rate_limit == 30

ResultRaisesRateLimit(outcome) == outcome = "rate_limited"

\* future.result() raises what _process_symbol raised: nothing, since its
\* `except Exception` returns False
ResultRaises(outcome) == FALSE

\* _process_symbol returns in a worker thread and as_completed hands the
\* future to the loop: success = future.result(), `except Exception as e`
WorkerFinish ==
    /\ process = "alive"
    /\ \E k \in BatchIds :
          /\ Running(k) > 0
          /\ tasks' = [tasks EXCEPT ![k] = <<@[1], @[2] - 1, @[3] + 1>>]
    /\ \E outcome \in ProcessOutcomes :
          /\ rate_limit_hit' = (rate_limit_hit \/ ResultRaises(outcome))
          /\ limited_only' = (limited_only /\ outcome = "rate_limited")
    /\ IssueCall
    /\ UNCHANGED <<runVars, cooldown, detVars, engVars, pipeVars, clockVars, svcVars, tokenVars, slowVars, fastVars, poolN,
                   batchI, submitted, stopCause, stopTod, gate, needRefresh,
                   fastFailures>>

ErrorsKept(errors) == errors

\* start(): `consecutive_errors = 0` after _fetch_all_symbols has returned
ErrorsAfterPass(errors) == 0

\* as_completed is exhausted: the next batch, before which
\* `if rate_limit_hit:` sleeps delay_on_rate_limit, or the end of the pass
PoolBatchJoin ==
    /\ process = "alive"
    /\ slowPc = "wait"
    /\ BatchComplete
    /\ IF batchI + batch_size < poolN
         THEN /\ batchI' = batchI + batch_size
              /\ submitted' = 0
              /\ slowPc' = "submit"
              /\ cooldown' = IF rate_limit_hit THEN delay_on_rate_limit ELSE 0
              /\ rate_limit_hit' = FALSE
              /\ limited_only' = TRUE
              /\ UNCHANGED consecutive_errors
         ELSE /\ slowPc' = "cadence"
              /\ consecutive_errors' = ErrorsAfterPass(consecutive_errors)
              /\ UNCHANGED <<batchI, submitted, rateVars>>
    /\ UNCHANGED <<runVars, detVars, engVars, pipeVars, clockVars, svcVars, tokenVars, slowErr, slowPending,
                   tokenChecked, fastVars, poolN, tasks, obsVars>>

\* ------------------------------------------------------ fast index thread
\* _fast_index_refresh_loop: a turn of the loop when a refresh is due
FastIterate ==
    /\ process = "alive"
    /\ fastPc = "loop"
    /\ running
    /\ IF ~is_market_open
         THEN /\ fastPc' = "closed_wait"
              /\ UNCHANGED <<fastSymbols, fastIdx, gate>>
         ELSE \E ok \in BOOLEAN :
                /\ fastSymbols' = FastFilter(FoIndexOrder(ok))
                /\ fastIdx' = 1
                /\ fastPc' = "pass"
                /\ gate' = [gate EXCEPT !.fast = WithinMarketHours]
    /\ UNCHANGED <<runVars, rateVars, detVars, engVars, pipeVars, clockVars, svcVars, tokenVars, slowVars, fastInFlight,
                   stopCause, stopTod, offHoursCall, needRefresh,
                   fastFailures,
                   poolVars>>

\* `while self.running` is false: the thread ends
FastLoopExit ==
    /\ process = "alive"
    /\ fastPc = "loop"
    /\ ~running
    /\ fastPc' = "stopped"
    /\ UNCHANGED <<runVars, rateVars, detVars, engVars, pipeVars, clockVars, svcVars, tokenVars, slowVars, fastSymbols,
                   fastIdx, fastInFlight, obsVars,
                   poolVars>>

\* time.sleep(60); continue
FastWake ==
    /\ process = "alive"
    /\ fastPc = "closed_wait"
    /\ fastPc' = "loop"
    /\ UNCHANGED <<runVars, rateVars, detVars, engVars, pipeVars, clockVars, svcVars, tokenVars, slowVars, fastSymbols,
                   fastIdx, fastInFlight, obsVars,
                   poolVars>>

\* _process_symbol of the next index begins: expiry resolution
FastStartSymbol ==
    /\ process = "alive"
    /\ fastPc = "pass"
    /\ ~fastInFlight
    /\ fastIdx <= Len(fastSymbols)
    /\ fastInFlight' = TRUE
    /\ IssueCall
    /\ UNCHANGED <<runVars, rateVars, detVars, engVars, pipeVars, clockVars, svcVars, tokenVars, slowVars, fastPc,
                   fastSymbols, fastIdx, stopCause, stopTod, gate,
                   needRefresh, fastFailures,
                   poolVars>>

\* ... and ends: snapshot fetch, store write, derived rows
FastFinishSymbol ==
    /\ process = "alive"
    /\ fastPc = "pass"
    /\ fastInFlight
    /\ fastInFlight' = FALSE
    /\ fastIdx' = fastIdx + 1
    /\ IssueCall
    /\ UNCHANGED <<runVars, rateVars, detVars, engVars, pipeVars, clockVars, svcVars, tokenVars, slowVars, fastPc,
                   fastSymbols, stopCause, stopTod, gate,
                   needRefresh, fastFailures,
                   poolVars>>

\* last_refresh = now; sleep(1)
FastPassDone ==
    /\ process = "alive"
    /\ fastPc = "pass"
    /\ ~fastInFlight
    /\ fastIdx > Len(fastSymbols)
    /\ fastPc' = "loop"
    /\ fastFailures' = 0
    /\ UNCHANGED <<runVars, rateVars, detVars, engVars, pipeVars, clockVars, svcVars, tokenVars, slowVars, fastSymbols,
                   fastIdx, fastInFlight, stopCause, stopTod,
                   offHoursCall, gate, needRefresh,
                   poolVars>>

\* an exception escapes the body of the fast loop
FastRaise ==
    /\ process = "alive"
    /\ fastPc = "pass"
    /\ ~fastInFlight
    /\ fastFailures < max_consecutive_errors
    /\ \E c \in ErrorClasses :
          needRefresh' = [needRefresh EXCEPT !.fast = (c = "credential")]
    /\ fastPc' = "except"
    /\ UNCHANGED <<runVars, rateVars, detVars, engVars, pipeVars, clockVars, svcVars, tokenVars, slowVars, fastSymbols,
                   fastIdx, fastInFlight, stopCause, stopTod, offHoursCall,
                   gate, fastFailures,
                   poolVars>>

\* `except Exception as e`: log, time.sleep(5), next turn
FastHandleError ==
    /\ process = "alive"
    /\ fastPc = "except"
    /\ fastPc' = "loop"
    /\ fastFailures' = fastFailures + 1
    /\ UNCHANGED <<runVars, rateVars, detVars, engVars, pipeVars, clockVars, svcVars, tokenVars, slowVars, fastSymbols,
                   fastIdx, fastInFlight, stopCause, stopTod,
                   offHoursCall, gate, needRefresh,
                   poolVars>>

\* ------------------------------------------------------ per-symbol pipeline
\* the index thread and one worker thread of the executor
Threads == {"index", "pool"}
\* the symbol whose _process_symbol the thread runs; its cache_key
SymbolOf(t) == IF t = "index" THEN ManualIndices[1] ELSE StockNames[1]
CacheKeys == {SymbolOf(t) : t \in Threads}
\* no entry / no value
None == <<>>
\* upstox_api: `if not self.access_token` holds for this value
NoToken == ""

\* expiry dates are day numbers; a listing is the set of 'expiry' values of
\* the contracts the expiry-list endpoint returns
ExpiryDates == 0..MaxDay
Listings == SUBSET ExpiryDates
\* an error answer of the upstream: a network failure (the text of the
\* exception), an expired access token, any other error
ErrorReplies == {"network", "credential", "other"}
\* get_option_contracts: (json, None), UDAPI10005, or another error
ContractReplies == {"data", "rate_limit"} \cup ErrorReplies
\* get_pc_option_chain: data, an empty 'data', UDAPI10005, or another error
ChainReplies == {"data", "no_data", "rate_limit"} \cup ErrorReplies

\* sorted({c['expiry'] ...})
RECURSIVE SortedDates(_)
SortedDates(S) ==
    IF S = {} THEN <<>>
    ELSE LET m == CHOOSE x \in S : \A y \in S : x <= y
         IN  <<m>> \o SortedDates(S \ {m})

AllListed(listing, today) == SortedDates(listing)

\* [exp for exp in expiry_dates if exp >= today]
FutureExpiries(listing, today) == SortedDates({d \in listing : d >= today})

\* q[:n]
Take(q, n) == SubSeq(q, 1, IF Len(q) < n THEN Len(q) ELSE n)

CacheValidAlways(entry, d, t) == TRUE

CacheValidSameDay(entry, d, t) == entry[2] = d

\* _get_latest_expiry: cache_datetime.date() == now.date() and
\* now.time() < 15:30; an entry is <<expiry, day stored, slot stored>>
CacheValid(entry, d, t) == entry[2] = d /\ t < CloseSlot

CacheStoreTorn(cache, key, expiry, d, t) ==
    [cache EXCEPT ![key] = IF @ = None THEN <<expiry, -1, -1>>
                           ELSE <<expiry, @[2], @[3]>>]

\* self.expiry_cache[cache_key] = (nearest_expiry, time.time()): one store of
\* one tuple object
CacheStore(cache, key, expiry, d, t) == [cache EXCEPT ![key] = <<expiry, d, t>>]

\* _get_latest_expiry: retry_wait = 5 * (2 ** attempt)
retry_wait(attempt) == rate_limit_base * (2 ^ attempt)

\* max_retries = 3, retry_delay = 5 of _fetch_and_store_option_chain
retry_delay == 5
FetchRetryDoubling(attempt) == retry_delay * (2 ^ attempt)

\* time.sleep(retry_delay)
FetchRetryDelay(attempt) == retry_delay

StoreIgnored(success) == TRUE

\* _fetch_and_store_option_chain: `if success:` guards the derived summaries
StoreSucceeded(success) == success

NoLookup == [e |-> None, d |-> -1, t |-> -1, hit |-> FALSE]

\* the resolver has returned no cached date; otherwise the entry it took the
\* date from, the clock at the return, the return statement (line 777 "hit",
\* line 809 "rate_limit") and the upstream calls made before it
NoCached == [e |-> None, d |-> -1, t |-> -1, why |-> "none", calls |-> 0]

\* a thread outside _process_symbol.  result is what the last call returned;
\* tried and ok_idx are the positions of expiry_dates for which
\* _fetch_and_store_option_chain was called and for which it returned True,
\* n_expiries the length of expiry_dates at the return, net_waits the sleeps
\* of the network retries of the last _fetch_and_store_option_chain,
\* summary_idx the positions for which a row of gamma_exposure_history was
\* written, store_failed those for which insert_option_chain_data failed
IdleThread ==
    [pc |-> "idle", attempt |-> 0, expiry_dates |-> <<>>, idx |-> 1,
     success_count |-> 0, done |-> {}, lookup |-> NoLookup, called |-> FALSE,
     cached |-> NoCached, rl_waits |-> <<>>, result |-> "none", tried |-> {},
     ok_idx |-> {}, n_expiries |-> 0, net_waits |-> <<>>,
     summary_idx |-> {}, store_failed |-> {}]

\* _process_symbol: "No expiry found", and the outer `except Exception`
NoExpiry == [IdleThread EXCEPT !.result = "false"]

\* expiry_dates is known: the loop over the expiries begins
Resolved(w, dates) ==
    [w EXCEPT !.pc = "fetch", !.attempt = 0, !.expiry_dates = dates,
              !.idx = 1, !.done = {"resolve"}, !.success_count = 0]

ReportedWhenAll(w, n) == n = Len(w.expiry_dates)

\* _process_symbol: `if success_count > 0: return True`, else False
Reported(w, n) == n > 0

\* _fetch_and_store_option_chain returned ok for the current expiry: the
\* next expiry, or the return of _process_symbol
AfterExpiry(w, ok) ==
    LET n == w.success_count + (IF ok THEN 1 ELSE 0)
        oks == IF ok THEN w.ok_idx \cup {w.idx} ELSE w.ok_idx
    IN
    IF w.idx < Len(w.expiry_dates)
      THEN [w EXCEPT !.pc = "fetch", !.attempt = 0, !.idx = @ + 1,
                     !.done = {"resolve"}, !.success_count = n,
                     !.ok_idx = oks, !.net_waits = <<>>]
      ELSE [IdleThread EXCEPT !.success_count = n,
                              !.result = IF Reported(w, n) THEN "true"
                                         ELSE "false",
                              !.tried = w.tried, !.ok_idx = oks,
                              !.n_expiries = Len(w.expiry_dates),
                              !.net_waits = w.net_waits,
                              !.summary_idx = w.summary_idx,
                              !.store_failed = w.store_failed]

\* a loop calls _process_symbol(symbol_config)
ProcessSymbol(t) ==
    /\ process = "alive"
    /\ t \in workers
    /\ thr[t].pc = "idle"
    /\ thr' = [thr EXCEPT ![t] = [IdleThread EXCEPT !.pc = "all_expiries"]]
    /\ UNCHANGED <<runVars, rateVars, detVars, engVars, clockVars, svcVars, tokenVars, slowVars, fastVars,
                   poolVars, workers, expiry_cache, lastStored, upstream,
                   obsVars>>

\* _get_all_expiries: one attempt, get_option_contracts answers reply
all_expiries_attempt(t, reply) ==
    /\ process = "alive"
    /\ thr[t].pc = "all_expiries"
    /\ LET w == thr[t]
           result == Take(FutureExpiries(upstream, day), max_expiries)
       IN  thr' = [thr EXCEPT ![t] =
              IF reply # "data" \/ api_token = NoToken
                THEN IF w.attempt < max_retries - 1
                       THEN [w EXCEPT !.attempt = @ + 1]
                       ELSE [w EXCEPT !.pc = "latest_in", !.attempt = 0]
              ELSE IF result # <<>>
                THEN Resolved(w, result)
                ELSE [w EXCEPT !.pc = "latest_in", !.attempt = 0]]
    /\ UNCHANGED <<runVars, rateVars, detVars, engVars, clockVars, svcVars, tokenVars, slowVars, fastVars,
                   poolVars, workers, expiry_cache, lastStored, upstream,
                   obsVars>>

get_all_expiries(t) ==
    \E reply \in ContractReplies : all_expiries_attempt(t, reply)

\* _get_latest_expiry: `if cache_key in self.expiry_cache`
latest_expiry_in(t) ==
    /\ process = "alive"
    /\ thr[t].pc = "latest_in"
    /\ thr' = [thr EXCEPT ![t].pc =
                  IF expiry_cache[SymbolOf(t)] # None THEN "latest_get"
                  ELSE "latest_call"]
    /\ UNCHANGED <<runVars, rateVars, detVars, engVars, clockVars, svcVars, tokenVars, slowVars, fastVars,
                   poolVars, workers, expiry_cache, lastStored, upstream,
                   obsVars>>

\* cached_expiry, cache_time = self.expiry_cache[cache_key], and the
\* validity test; a missing key is a KeyError that _process_symbol catches
latest_expiry_get(t) ==
    /\ process = "alive"
    /\ thr[t].pc = "latest_get"
    /\ LET w == thr[t]
           entry == expiry_cache[SymbolOf(t)]
       IN  thr' = [thr EXCEPT ![t] =
              IF entry = None THEN NoExpiry
              ELSE LET hit == CacheValid(entry, day, tod)
                       seen == [w EXCEPT !.lookup = [e |-> entry, d |-> day,
                                                     t |-> tod, hit |-> hit]]
                       used == [seen EXCEPT !.cached =
                                   [e |-> entry, d |-> day, t |-> tod,
                                    why |-> "hit", calls |-> 0]]
                   IN  IF hit THEN Resolved(used, <<entry[1]>>)
                       ELSE [seen EXCEPT !.pc = "latest_call"]]
    /\ UNCHANGED <<runVars, rateVars, detVars, engVars, clockVars, svcVars, tokenVars, slowVars, fastVars,
                   poolVars, workers, expiry_cache, lastStored, upstream,
                   obsVars>>

\* _get_latest_expiry: one attempt of the retry loop, get_option_contracts
\* answers reply
latest_expiry_attempt(t, reply) ==
    /\ process = "alive"
    /\ thr[t].pc = "latest_call"
    /\ LET w == [thr[t] EXCEPT !.called = TRUE]
           key == SymbolOf(t)
           future == FutureExpiries(upstream, day)
           stored == reply = "data" /\ api_token # NoToken /\ future # <<>>
       IN  /\ thr' = [thr EXCEPT ![t] =
                 IF reply = "rate_limit" /\ api_token # NoToken
                   THEN IF w.attempt < max_retries - 1
                          THEN [w EXCEPT !.attempt = @ + 1,
                                         !.rl_waits = Append(@,
                                             retry_wait(w.attempt))]
                        ELSE IF expiry_cache[key] # None
                          THEN Resolved([w EXCEPT !.cached =
                                   [e |-> expiry_cache[key], d |-> day,
                                    t |-> tod, why |-> "rate_limit",
                                    calls |-> w.attempt + 1]],
                                 <<expiry_cache[key][1]>>)
                        ELSE NoExpiry
                 ELSE IF stored
                   THEN Resolved(w, <<future[1]>>)
                 ELSE IF reply = "data" /\ api_token # NoToken
                   THEN NoExpiry
                 ELSE IF w.attempt < max_retries - 1
                   THEN [w EXCEPT !.attempt = @ + 1]
                 ELSE NoExpiry]
           /\ expiry_cache' =
                 IF stored
                   THEN CacheStore(expiry_cache, key, future[1], day, tod)
                   ELSE expiry_cache
           /\ lastStored' =
                 IF stored
                   THEN [lastStored EXCEPT ![key] = <<future[1], day, tod>>]
                   ELSE lastStored
    /\ UNCHANGED <<runVars, rateVars, detVars, engVars, clockVars, svcVars, tokenVars, slowVars, fastVars,
                   poolVars, workers, upstream, obsVars>>

latest_expiry_call(t) ==
    \E reply \in ContractReplies : latest_expiry_attempt(t, reply)

\* _fetch_and_store_option_chain: one attempt of the retry loop,
\* get_pc_option_chain answers reply
option_chain_attempt(t, reply) ==
    /\ process = "alive"
    /\ thr[t].pc = "fetch"
    /\ LET w == [thr[t] EXCEPT !.tried = @ \cup {thr[t].idx}] IN
       thr' = [thr EXCEPT ![t] =
          IF reply = "data" /\ api_token # NoToken
            THEN [w EXCEPT !.pc = "store", !.done = @ \cup {"fetch"}]
          ELSE IF reply = "network" /\ api_token # NoToken
                  /\ w.attempt < fetch_max_retries - 1
            THEN [w EXCEPT !.attempt = @ + 1,
                           !.net_waits = Append(@, FetchRetryDelay(w.attempt))]
          ELSE AfterExpiry(w, FALSE)]
    /\ UNCHANGED <<runVars, rateVars, detVars, engVars, clockVars, svcVars, tokenVars, slowVars, fastVars,
                   poolVars, workers, expiry_cache, lastStored, upstream,
                   obsVars>>

fetch_option_chain(t) ==
    \E reply \in ChainReplies : option_chain_attempt(t, reply)

\* success = self.db_manager.insert_option_chain_data(...)
store_option_chain(t) ==
    /\ process = "alive"
    /\ thr[t].pc = "store"
    /\ \E inserted \in BOOLEAN :
          LET success == inserted /\ db = "open"
              w == [thr[t] EXCEPT
                       !.store_failed = IF success THEN @
                                        ELSE @ \cup {thr[t].idx}]
          IN  thr' = [thr EXCEPT ![t] =
                 IF StoreSucceeded(success)
                   THEN [w EXCEPT !.pc = "derive",
                                  !.done = IF success THEN @ \cup {"store"}
                                           ELSE @]
                   ELSE AfterExpiry(w, FALSE)]
    /\ UNCHANGED <<runVars, rateVars, detVars, engVars, clockVars, svcVars, tokenVars, slowVars, fastVars,
                   poolVars, workers, expiry_cache, lastStored, upstream,
                   obsVars>>

\* `if df.empty or len(df) < 3: return`
min_strikes == 3
\* the usable strikes (both sides listed, strike_price > 0) of a snapshot
\* that insert_option_chain_data has stored: at least one
UsableStrikes == {2, 3}

\* ITM buckets, sentiment, gamma exposure: each in its own try/except, then
\* `return success`.  _calculate_and_store_gamma_exposure inserts its row
\* unless the snapshot has fewer than 3 usable strikes
derive_summaries(t) ==
    /\ process = "alive"
    /\ thr[t].pc = "derive"
    /\ \E strikes \in UsableStrikes :
          LET w == thr[t]
              written == IF strikes < min_strikes THEN {} ELSE {w.idx}
          IN  thr' = [thr EXCEPT ![t] =
                 AfterExpiry([w EXCEPT !.summary_idx = @ \cup written],
                             "store" \in w.done)]
    /\ UNCHANGED <<runVars, rateVars, detVars, engVars, clockVars, svcVars, tokenVars, slowVars, fastVars,
                   poolVars, workers, expiry_cache, lastStored, upstream,
                   obsVars>>

\* the exchange lists or delists the contracts of one expiry date: the next
\* reply of the expiry-list endpoint carries another set of expiry dates
UpstreamRelist ==
    /\ process = "alive"
    /\ \E d \in ExpiryDates :
          upstream' = IF d \in upstream THEN upstream \ {d}
                      ELSE upstream \cup {d}
    /\ UNCHANGED <<runVars, rateVars, detVars, engVars, clockVars, svcVars, tokenVars, slowVars, fastVars,
                   poolVars, workers, thr, expiry_cache, lastStored, obsVars>>

\* the main thread calls _refresh_access_token_if_needed between passes
RefreshAccessToken ==
    /\ process = "alive"
    /\ running
    /\ \E outcome \in RefreshOutcomes :
          LET r == RefreshTokens(outcome, api_token, cred_token) IN
          /\ api_token' = r.api
          /\ cred_token' = r.cred
    /\ UNCHANGED <<runVars, rateVars, detVars, engVars, clockVars, svcVars, slowVars, fastVars, poolVars,
                   pipeVars, obsVars>>

\* ------------------------------------------------------ derivative engine
\* _calculate_and_store_gamma_exposure for one (symbol, expiry) of an index
\* (is_index: rates are per second).  Timestamps and datetime.now() are
\* counted in ticks of 1/TicksPerSecond s; rates are exact fractions <<n, d>>.
Zero == <<0, 1>>
\* the second a timestamp lies in
SecondOf(ts) == ts \div TicksPerSecond

\* atm_oi and atm_iv of a snapshot
OiValues == {80, 100}
IvValues == {20, 25}

\* iv_cap = 0.16, oi_cap = 1666, accel_cap = 166 for an index
iv_cap == <<16, 100>>
oi_cap == <<1666, 1>>
accel_cap == <<166, 1>>

\* is_index = symbol in self.realtime_indices, for the symbol of the thread
\* that runs the engine
IsIndex(t) == SymbolOf(t) \in realtime_indices

\* iv_cap = 0.16 if is_index else 10, and so on
Caps(is_index) ==
    IF is_index THEN [iv |-> iv_cap, oi |-> oi_cap, accel |-> accel_cap]
    ELSE [iv |-> <<10, 1>>, oi |-> <<100000, 1>>, accel |-> <<10000, 1>>]

\* time_divisor = time_diff_seconds if is_index else time_diff_seconds / 60:
\* the ticks of the unit of time the rates are taken per
TicksPerUnit(is_index) ==
    IF is_index THEN TicksPerSecond ELSE 60 * TicksPerSecond
\* unwinding_intensity = min(100, ...)
unwinding_cap == <<100, 1>>
SecondsPerHour == 3600

Unclamped(f, cap) == f

\* max(-cap, min(cap, f)) for a fraction f with a positive denominator
Capped(f, cap) ==
    IF f[1] = 0 THEN Zero
    ELSE IF f[1] * cap[2] > cap[1] * f[2] THEN cap
    ELSE IF f[1] * cap[2] < (0 - cap[1]) * f[2] THEN <<0 - cap[1], cap[2]>>
    ELSE f

Abs(x) == IF x < 0 THEN 0 - x ELSE x

\* the rows of gamma_exposure_history, ORDER BY timestamp DESC
RECURSIVE RowsDesc(_)
RowsDesc(rows) ==
    IF rows = {} THEN <<>>
    ELSE LET r == CHOOSE x \in rows : \A y \in rows : y.ts <= x.ts
         IN  <<r>> \o RowsDesc(rows \ {r})

\* LIMIT 10
history_limit == 10
\* stop after 3 records
distinct_limit == 3

\* `if prev_oi is None or curr_oi != prev_oi or curr_iv != prev_iv`: the
\* record is kept if it is the first or differs from the record kept last
Changed(rec, kept) ==
    kept = <<>> \/ rec.atm_oi # kept[Len(kept)].atm_oi
                \/ rec.atm_iv # kept[Len(kept)].atm_iv

\* the filter loop over all_historical_data (newest first)
RECURSIVE FilterChanged(_, _)
FilterChanged(all, kept) ==
    IF all = <<>> \/ Len(kept) >= distinct_limit THEN kept
    ELSE FilterChanged(Tail(all),
                       IF Changed(Head(all), kept) THEN Append(kept, Head(all))
                       ELSE kept)

\* the derived fields of the new row, from the filtered history (newest
\* first), the current atm_oi / atm_iv and the time of the fetch; p1_time is
\* the timestamp the rates are taken from, -1 when nothing is compared
ColdStartCompared ==
    [oi_velocity |-> Zero, iv_velocity |-> Zero, oi_acceleration |-> Zero,
     unwinding_intensity |-> Zero, p1_time |-> 0]

\* `iv_velocity = oi_velocity = oi_acceleration = 0` and so on: the branch of
\* a first insertion, and the branch of an unchanged snapshot
ColdStart ==
    [oi_velocity |-> Zero, iv_velocity |-> Zero, oi_acceleration |-> Zero,
     unwinding_intensity |-> Zero, p1_time |-> -1]

Derivatives(is_index, hist, oi, iv, t) ==
    IF Len(hist) < 1 THEN ColdStart
    ELSE LET p1 == hist[1]
             has_changed == oi # p1.atm_oi \/ iv # p1.atm_iv
             ticks == t - p1.ts
             caps == Caps(is_index)
             per == TicksPerUnit(is_index)
             iv_velocity ==
                 IF p1.atm_iv > 0 /\ iv # p1.atm_iv
                   THEN Capped(<<(iv - p1.atm_iv) * per, ticks>>, caps.iv)
                   ELSE Zero
             oi_velocity ==
                 IF oi # p1.atm_oi
                   THEN Capped(<<(oi - p1.atm_oi) * per, ticks>>, caps.oi)
                   ELSE Zero
             oi_acceleration ==
                 IF Len(hist) >= 2
                   THEN LET p2 == hist[2]
                            prev_ticks == p1.ts - p2.ts
                            prev_v == Capped(<<(p1.atm_oi - p2.atm_oi) * per,
                                               prev_ticks>>, caps.oi)
                        IN  IF p1.atm_oi # p2.atm_oi /\ prev_ticks > 0
                              THEN Capped(
                                     <<(oi_velocity[1] * prev_v[2]
                                          - prev_v[1] * oi_velocity[2])
                                         * per,
                                       oi_velocity[2] * prev_v[2] * ticks>>,
                                     caps.accel)
                              ELSE Zero
                   ELSE Zero
             unwinding_intensity ==
                 IF p1.atm_oi > 0 /\ oi - p1.atm_oi < 0
                   THEN Capped(<<Abs(oi - p1.atm_oi) * 100 * TicksPerSecond
                                    * SecondsPerHour,
                                 p1.atm_oi * ticks>>, unwinding_cap)
                   ELSE Zero
         IN  IF has_changed
               THEN [oi_velocity |-> oi_velocity, iv_velocity |-> iv_velocity,
                     oi_acceleration |-> oi_acceleration,
                     unwinding_intensity |-> unwinding_intensity,
                     p1_time |-> p1.ts]
               ELSE ColdStart

\* INSERT ... ON CONFLICT (timestamp, symbol, expiry_date) DO UPDATE
Upsert(rows, row) == {r \in rows : r.ts # row.ts} \cup {row}

\* one run of _calculate_and_store_gamma_exposure at time clk, in thread t,
\* for a snapshot with the given atm_oi and atm_iv; read_ok: the history
\* query worked; distinct_read: the length of the filtered history.  A
\* changed snapshot at the very timestamp of the newest row divides by a zero
\* time difference: the exception ends the run without a row.
calculate_and_store_gamma_exposure ==
    /\ process = "alive"
    /\ Cardinality(geh) < MaxRows \/ \E r \in geh : r.ts = clk
    /\ \E t \in workers, oi \in OiValues, iv \in IvValues,
          read_ok \in BOOLEAN :
          LET all == IF read_ok
                       THEN SubSeq(RowsDesc(geh), 1,
                                   IF Cardinality(geh) < history_limit
                                     THEN Cardinality(geh) ELSE history_limit)
                       ELSE <<>>
              hist == FilterChanged(all, <<>>)
              divides == hist # <<>> /\ (oi # hist[1].atm_oi
                                          \/ iv # hist[1].atm_iv)
              d == Derivatives(IsIndex(t), hist, oi, iv, clk)
              row == [ts |-> clk, atm_oi |-> oi, atm_iv |-> iv,
                      oi_velocity |-> d.oi_velocity,
                      iv_velocity |-> d.iv_velocity,
                      oi_acceleration |-> d.oi_acceleration,
                      unwinding_intensity |-> d.unwinding_intensity,
                      p1_time |-> d.p1_time, history_read |-> Len(all),
                      distinct_read |-> Len(hist)]
          IN  geh' = IF divides /\ clk = hist[1].ts THEN geh
                     ELSE Upsert(geh, row)
    /\ UNCHANGED <<runVars, rateVars, detVars, clockVars, svcVars, tokenVars, slowVars, fastVars,
                   poolVars, pipeVars, obsVars, clk>>

\* the rows a history query may return, newest first: up to 3 rows, gap
\* ticks apart, with values that repeat or differ
RateOis == {80, 100, 1000}
RateIvs == {0, 20, 25}
RateRows(gap) ==
    LET vals == RateOis \X {20, 25}
        Row(v, ts) == [ts |-> ts, atm_oi |-> v[1], atm_iv |-> v[2]]
    IN  {<<>>} \cup {<<Row(a, 0)>> : a \in vals}
               \cup {<<Row(a, gap), Row(b, 0)>> : a, b \in vals}
               \cup {<<Row(a, 2 * gap), Row(b, gap), Row(c, 0)>> :
                        a, b, c \in vals}

\* the rates of one run: the filter over the rows read, then the velocities
\* and the acceleration; raised: the snapshot differs from the newest row
\* and carries its very timestamp, the division by the time difference
\* raises and no row is written
call_derivatives ==
    /\ ~rate_call.called
    /\ LET c == rate_call
           hist == FilterChanged(c.all, <<>>)
           divides == hist # <<>> /\ (c.atm_oi # hist[1].atm_oi
                                       \/ c.atm_iv # hist[1].atm_iv)
       IN  rate_call' =
              [c EXCEPT !.called = TRUE,
                        !.distinct = Len(hist),
                        !.raised = divides /\ c.now = hist[1].ts,
                        !.ret = IF divides /\ c.now = hist[1].ts
                                  THEN ColdStart
                                  ELSE Derivatives(c.is_index, hist, c.atm_oi,
                                                   c.atm_iv, c.now)]
    /\ UNCHANGED <<runVars, rateVars, clockVars, svcVars, tokenVars, slowVars, fastVars,
                   poolVars, pipeVars, engVars, obsVars, score_call,
                   detect_call, resolve_call, signal_call>>

\* time passes between two runs
Elapse ==
    /\ process = "alive"
    /\ clk < MaxClk
    /\ clk' = clk + 1
    /\ UNCHANGED <<runVars, rateVars, detVars, clockVars, svcVars, tokenVars, slowVars, fastVars,
                   poolVars, pipeVars, obsVars, geh>>

\* -------------------------------------------------------- adaptive detector
\* AdaptiveGammaBlastDetector.  Values are integers in the unit of their
\* metric; a score is the record [num, var, huge] that stands for
\* num / sqrt(var), and with huge for the quotient of the finite difference
\* num and a standard deviation of the size of one rounding error.
NoCall == [called |-> FALSE]

IntScore(k) == [num |-> k, var |-> 1, huge |-> FALSE]

Sign(x) == IF x > 0 THEN 1 ELSE IF x < 0 THEN -1 ELSE 0

RECURSIVE SeqSum(_)
SeqSum(s) == IF s = <<>> THEN 0 ELSE Head(s) + SeqSum(Tail(s))

Squares(s) == [i \in 1..Len(s) |-> s[i] * s[i]]

\* all values of a list are one value
AllEqual(s) == \A i \in 1..Len(s) : s[i] = s[1]

\* np.mean sums floats and divides the sum by n; each of the two results is
\* rounded to a float.  For a list of n equal values v the computed mean is
\* v or a float next to v (for [0.3] * 10 it is 0.29999999999999993): the
\* rounding is -1, 0 or +1, and np.std of the list is 0 only when it is 0
MeanRounding == {-1, 0, 1}

\* 4 * np.percentile(historical, 25 * q) with linear interpolation
Percentile4(historical, q) ==
    LET a == SortSeq(historical, LAMBDA x, y : x < y)
        pos4 == q * (Len(a) - 1)
        lo == pos4 \div 4
        r == pos4 % 4
    IN  IF r = 0 THEN 4 * a[lo + 1]
        ELSE (4 - r) * a[lo + 1] + r * a[lo + 2]

DefaultThreshold == 0

FallbackAppliesAlways(fallback_threshold) == TRUE

\* `if fallback_threshold > 0:` of the sparse tier
FallbackApplies(fallback_threshold) == fallback_threshold > 0

calculate_z_score_or_threshold(current, historical, fallback_threshold, rnd) ==
    LET n == Len(historical) IN
    IF n >= 10
      THEN LET S == SeqSum(historical)
               V == n * SeqSum(Squares(historical)) - S * S
           IN  IF V > 0
                 THEN [num |-> n * current - S, var |-> V, huge |-> FALSE]
               ELSE IF rnd = 0
                 THEN IntScore(0)
               ELSE IF current = historical[1]
                 THEN IntScore(-rnd)
               ELSE [num |-> Sign(current - historical[1]), var |-> 1,
                     huge |-> TRUE]
    ELSE IF n >= 3
      THEN IF 4 * current > Percentile4(historical, 3) THEN IntScore(1)
           ELSE IF 4 * current < Percentile4(historical, 1) THEN IntScore(-1)
           ELSE IntScore(0)
    ELSE IF FallbackApplies(fallback_threshold)
      THEN IF current > fallback_threshold THEN IntScore(1) ELSE IntScore(0)
    ELSE IntScore(0)

\* z > a / b and z < -(a / b), for a >= 0 and b > 0
ScoreAbove(z, a, b) ==
    /\ z.num > 0
    /\ z.huge \/ b * b * z.num * z.num > a * a * z.var
ScoreBelow(z, a, b) ==
    /\ z.num < 0
    /\ z.huge \/ b * b * z.num * z.num > a * a * z.var

\* abs(z) in hundredths, rounded down, for abs(z) <= 2.5
Hundredths(z) ==
    LET q == (10000 * z.num * z.num) \div z.var IN
    CHOOSE k \in 0..250 : k * k <= q /\ (k = 250 \/ (k + 1) * (k + 1) > q)

\* the lists handed to the detector: every list of fewer than 3 values, and
\* the lists of 3, 4, 10 and MaxHist values that hold one value k times and
\* then another
HistLens == {3, 4, 10, MaxHist}
TwoLevel(n, k, a, b) == [i \in 1..n |-> IF i <= k THEN a ELSE b]
ListsOf(values) ==
    {<<>>} \cup {<<a>> : a \in values} \cup {<<a, b>> : a, b \in values}
      \cup {TwoLevel(n, k, a, b) : n \in HistLens, k \in 1..MaxHist,
                                   a, b \in values}

ScoreValues == {5, 30, 31}
ScoreCurrents == {-1, 0, 5, 30, 31}
FallbackThresholds == {-5, DefaultThreshold, 30}

\* the rounding of the mean shows only in a list of 10 equal values or more
RoundingsOf(historical) ==
    IF Len(historical) >= 10 /\ AllEqual(historical) THEN MeanRounding
    ELSE {0}

\* one call calculate_z_score_or_threshold(current, historical,
\* fallback_threshold)
call_calculate_z_score ==
    /\ ~score_call.called
    /\ score_call' =
          [score_call EXCEPT
              !.called = TRUE,
              !.ret = calculate_z_score_or_threshold(
                          score_call.current, score_call.historical,
                          score_call.fallback_threshold, score_call.rnd)]
    /\ UNCHANGED <<runVars, rateVars, clockVars, svcVars, tokenVars, slowVars, fastVars,
                   poolVars, pipeVars, engVars, obsVars, detect_call,
                   resolve_call, rate_call, signal_call>>

\* ---- detect_gamma_blast.  A sub-signal is counted in hundredths (0..100),
\* a weight in hundredths, the probability in ten-thousandths; a trigger is
\* its text without the number printed in it.  atm_iv is in percent, atm_oi
\* and its differences in OiUnit contracts, gamma_concentration in tenths,
\* net_gex in thousands.
OiUnit == 1000
iv_fallback == 30
gamma_fallback == 6
probability_cap == 9500

Max2(a, b) == IF a >= b THEN a ELSE b
Min2(a, b) == IF a <= b THEN a ELSE b

SubSignal(strength, trigger) == [s |-> strength, trig |-> trigger]

Column(historical_data, field) ==
    [i \in 1..Len(historical_data) |-> historical_data[i][field]]

Positive(x) == x > 0

\* SIGNAL 1: IV z-score spike
iv_signal(curr_iv, hist_iv, rnd) ==
    LET z == calculate_z_score_or_threshold(curr_iv, hist_iv, iv_fallback,
                                            rnd)
    IN  IF Len(hist_iv) >= 10
          THEN IF ScoreAbove(z, 5, 2) THEN SubSignal(100, <<"IV Spike">>)
               ELSE IF ScoreAbove(z, 2, 1) THEN SubSignal(60, <<"IV Elevated">>)
               ELSE IF ScoreBelow(z, 2, 1) THEN SubSignal(60, <<"IV Collapse">>)
               ELSE SubSignal(Max2(0, Min2(100,
                              ((Hundredths(z) - 100) * 100) \div 150)), <<>>)
        ELSE IF Len(hist_iv) >= 3
          THEN IF z.num > 0 THEN SubSignal(80, <<"IV Elevated (>P75)">>)
               ELSE IF z.num < 0 THEN SubSignal(60, <<"IV Collapsed (<P25)">>)
               ELSE SubSignal(30, <<>>)
        ELSE IF z.num > 0 THEN SubSignal(50, <<"IV High">>)
        ELSE SubSignal(0, <<>>)

\* SIGNAL 2: OI acceleration; hist_oi_all is the atm_oi of every row of
\* historical_data.  The values are whole numbers of contracts, whose sums
\* are exact.
oi_accel_signal(curr_oi, hist_oi_all) ==
    LET n == Len(hist_oi_all) IN
    IF n >= 3
      THEN LET velocity_1 == hist_oi_all[n - 1] - hist_oi_all[n - 2]
               velocity_2 == curr_oi - hist_oi_all[n - 1]
               acceleration == velocity_2 - velocity_1
               hist_accelerations ==
                   [i \in 1..(n - 2) |->
                       (hist_oi_all[i + 2] - hist_oi_all[i + 1])
                         - (hist_oi_all[i + 1] - hist_oi_all[i])]
               fallback_accel ==
                   IF curr_oi < 1000000 \div OiUnit THEN 1000 \div OiUnit
                   ELSE 10000 \div OiUnit
               z == calculate_z_score_or_threshold(
                        acceleration, hist_accelerations, fallback_accel, 0)
           IN  IF Len(hist_accelerations) >= 10
                 THEN IF ScoreBelow(z, 2, 1)
                        THEN SubSignal(100, <<"OI Unwinding">>)
                      ELSE IF ScoreAbove(z, 2, 1)
                        THEN SubSignal(70, <<"OI Buildup">>)
                      ELSE SubSignal(Max2(0, (Hundredths(z) * 100) \div 250),
                                  <<>>)
               ELSE IF Len(hist_accelerations) >= 3
                 THEN IF z.num < 0
                        THEN SubSignal(80, <<"OI Unwinding (<P25)">>)
                      ELSE IF z.num > 0
                        THEN SubSignal(60, <<"OI Buildup (>P75)">>)
                      ELSE SubSignal(30, <<>>)
               ELSE IF z.num # 0
                 THEN IF acceleration < 0
                        THEN SubSignal(60, <<"OI Unwinding">>)
                      ELSE SubSignal(40, <<"OI Buildup">>)
               ELSE SubSignal(0, <<>>)
      ELSE SubSignal(0, <<>>)

\* SIGNAL 3: gamma concentration expansion
gamma_conc_signal(curr_gamma_conc, hist_gamma_conc, rnd) ==
    LET z == calculate_z_score_or_threshold(curr_gamma_conc, hist_gamma_conc,
                                            gamma_fallback, rnd)
    IN  IF Len(hist_gamma_conc) >= 10
          THEN IF ScoreAbove(z, 2, 1)
                 THEN SubSignal(100, <<"Gamma Clustering">>)
               ELSE IF z.num <= 0 THEN SubSignal(0, <<>>)
               ELSE SubSignal(Min2(100, (Hundredths(z) * 100) \div 250), <<>>)
        ELSE IF Len(hist_gamma_conc) >= 3
          THEN IF z.num > 0 THEN SubSignal(80, <<"Gamma Clustering (>P75)">>)
               ELSE SubSignal(0, <<>>)
        ELSE IF z.num > 0 THEN SubSignal(60, <<"High Gamma Conc">>)
        ELSE SubSignal(0, <<>>)

\* SIGNAL 4: `abs(spot - atm_strike) / spot` divides by a spot of 0
PinRiskRaises(spot, atm_strike) == atm_strike > 0 /\ spot = 0

\* distance_pct < a / 10; a negative spot gives a negative distance_pct
DistanceBelow(spot, atm_strike, a) ==
    LET d == IF spot >= atm_strike THEN spot - atm_strike
             ELSE atm_strike - spot
    IN  IF spot > 0 THEN 1000 * d < a * spot ELSE d > 0 \/ a > 0

pin_risk_signal(spot, atm_strike) ==
    IF atm_strike > 0
      THEN IF DistanceBelow(spot, atm_strike, 3)
             THEN SubSignal(100, <<"Pin Risk">>)
           ELSE IF DistanceBelow(spot, atm_strike, 5)
             THEN SubSignal(60, <<"Pin Risk">>)
           ELSE IF DistanceBelow(spot, atm_strike, 10)
             THEN SubSignal(30, <<>>)
           ELSE SubSignal(0, <<>>)
      ELSE SubSignal(0, <<>>)

StrongFlipNever(flip_magnitude, prev_gex) == FALSE

\* `if flip_magnitude > abs(prev_gex) * 0.5:`
StrongFlip(flip_magnitude, prev_gex) == 2 * flip_magnitude > Abs(prev_gex)

\* SIGNAL 5: GEX flip detection
gex_flip_signal(curr_gex, hist_gex) ==
    IF Len(hist_gex) > 0
      THEN LET prev_gex == hist_gex[Len(hist_gex)]
               flip_magnitude == Abs(curr_gex - prev_gex)
           IN  IF (prev_gex > 0 /\ curr_gex < 0)
                    \/ (prev_gex < 0 /\ curr_gex > 0)
                 THEN IF StrongFlip(flip_magnitude, prev_gex)
                        THEN SubSignal(100, <<"GEX Flip Detected (Strong)">>)
                      ELSE SubSignal(60, <<"GEX Flip Detected">>)
               ELSE SubSignal(0, <<>>)
      ELSE SubSignal(0, <<>>)

\* SIGNAL 6: GEX extremes
gex_extreme_signal(curr_gex, hist_gex) ==
    LET n == Len(hist_gex)
        below == Cardinality({i \in 1..n : hist_gex[i] <= curr_gex})
    IN  IF n >= 10
          THEN IF 100 * below > 95 * n THEN SubSignal(100, <<"Extreme GEX">>)
               ELSE IF 100 * below > 90 * n THEN SubSignal(70, <<"High GEX">>)
               ELSE IF 100 * below < 5 * n THEN SubSignal(100, <<"Extreme GEX">>)
               ELSE IF 100 * below < 10 * n THEN SubSignal(70, <<"Low GEX">>)
               ELSE SubSignal(0, <<>>)
      ELSE SubSignal(0, <<>>)

SignalNames ==
    {"iv", "oi_accel", "gamma_conc", "pin_risk", "gex_flip", "gex_extreme"}

weights ==
    [iv |-> 25, oi_accel |-> 30, gamma_conc |-> 20, pin_risk |-> 10,
     gex_flip |-> 10, gex_extreme |-> 5]

\* sum(signals.get(key, 0) * weight for key, weight in weights.items())
WeightedSum(signals) ==
    signals.iv * weights.iv + signals.oi_accel * weights.oi_accel
      + signals.gamma_conc * weights.gamma_conc
      + signals.pin_risk * weights.pin_risk
      + signals.gex_flip * weights.gex_flip
      + signals.gex_extreme * weights.gex_extreme

Uncapped(p) == p

\* probability = min(0.95, probability)
CapProbability(p) == Min2(probability_cap, p)

\* ITM change in OI of one side: `< -10000` counts 3, `< 0` counts 2
itm_threshold == -10000
ItmContribution(chg_oi) ==
    IF chg_oi < itm_threshold THEN 3 ELSE IF chg_oi < 0 THEN 2 ELSE 0

\* pcr = pe_oi_total / ce_oi_total if ce_oi_total > 0 else 1;
\* pcr < 0.7 counts +1, pcr > 1.3 counts -1
PcrContribution(ce_oi_total, pe_oi_total) ==
    IF ce_oi_total <= 0 THEN 0
    ELSE IF 10 * pe_oi_total < 7 * ce_oi_total THEN 1
    ELSE IF 10 * pe_oi_total > 13 * ce_oi_total THEN -1
    ELSE 0

\* curr_gex against the 75th and 25th percentile of 5 rows or more
GexContribution(curr_gex, hist_gex) ==
    IF Len(hist_gex) >= 5
      THEN IF 4 * curr_gex > Percentile4(hist_gex, 3) THEN -2
           ELSE IF 4 * curr_gex < Percentile4(hist_gex, 1) THEN 2
           ELSE 0
    ELSE 0

\* ce_iv_avg > pe_iv_avg * 1.1 counts -1, the converse +1
SkewContribution(ce_iv_avg, pe_iv_avg) ==
    IF ce_iv_avg > 0 /\ pe_iv_avg > 0
      THEN IF 10 * ce_iv_avg > 11 * pe_iv_avg THEN -1
           ELSE IF 10 * pe_iv_avg > 11 * ce_iv_avg THEN 1
           ELSE 0
    ELSE 0

\* the spot prices of the last 3 rows: falling counts -2, rising +2
TrendContribution(historical_data) ==
    LET n == Len(historical_data)
        recent_spots == [i \in 1..3 |-> historical_data[n - 3 + i].spot_price]
    IN  IF n >= 3
          THEN IF \A i \in 1..2 : recent_spots[i] > recent_spots[i + 1]
                 THEN -2
               ELSE IF \A i \in 1..2 : recent_spots[i] < recent_spots[i + 1]
                 THEN 2
               ELSE 0
        ELSE 0

direction_score(current_data, historical_data) ==
    ItmContribution(current_data.ce_itm_chg_oi)
      - ItmContribution(current_data.pe_itm_chg_oi)
      + PcrContribution(current_data.ce_oi_total, current_data.pe_oi_total)
      + GexContribution(current_data.net_gex,
                        Column(historical_data, "net_gex"))
      + SkewContribution(current_data.ce_iv_avg, current_data.pe_iv_avg)
      + TrendContribution(historical_data)

DirectionOfStrict(score) ==
    IF score > 2 THEN "UPSIDE" ELSE IF score < -2 THEN "DOWNSIDE"
    ELSE "NEUTRAL"

\* `if direction_score >= 2` ... `elif direction_score <= -2`
DirectionOf(score) ==
    IF score >= 2 THEN "UPSIDE" ELSE IF score <= -2 THEN "DOWNSIDE"
    ELSE "NEUTRAL"

ConfidenceByProbability(probability, n_triggers) ==
    IF probability > 7000 THEN "CRITICAL"
    ELSE IF probability > 6000 THEN "VERY_HIGH"
    ELSE IF probability > 4000 THEN "HIGH"
    ELSE IF probability > 2500 THEN "MEDIUM"
    ELSE "LOW"

\* CONFIDENCE based on trigger count and probability
ConfidenceOf(probability, n_triggers) ==
    IF probability > 7000 /\ n_triggers >= 4 THEN "CRITICAL"
    ELSE IF probability > 6000 /\ n_triggers >= 3 THEN "VERY_HIGH"
    ELSE IF probability > 4000 THEN "HIGH"
    ELSE IF probability > 2500 THEN "MEDIUM"
    ELSE "LOW"

\* RISK LEVEL
RiskLevelOf(probability) ==
    IF probability > 7500 THEN "EXTREME"
    ELSE IF probability > 6000 THEN "HIGH"
    ELSE IF probability > 4000 THEN "ELEVATED"
    ELSE "LOW"

NoSignal ==
    [raised |-> FALSE, signals |-> [k \in SignalNames |-> 0],
     triggers |-> <<>>, probability |-> 0, direction_score |-> 0,
     direction |-> "NEUTRAL", confidence |-> "LOW", risk_level |-> "LOW"]

\* detect_gamma_blast; raised: ZeroDivisionError, nothing is returned.
\* direction_score is the local the direction is taken from
detect_gamma_blast(current_data, historical_data, rnd_iv, rnd_gamma) ==
    LET hist_iv == SelectSeq(Column(historical_data, "atm_iv"), Positive)
        hist_gex == Column(historical_data, "net_gex")
        s1 == iv_signal(current_data.atm_iv, hist_iv, rnd_iv)
        s2 == oi_accel_signal(current_data.atm_oi,
                              Column(historical_data, "atm_oi"))
        s3 == gamma_conc_signal(
                  current_data.gamma_concentration,
                  Column(historical_data, "gamma_concentration"), rnd_gamma)
        s4 == pin_risk_signal(current_data.spot_price, current_data.atm_strike)
        s5 == gex_flip_signal(current_data.net_gex, hist_gex)
        s6 == gex_extreme_signal(current_data.net_gex, hist_gex)
        signals == [iv |-> s1.s, oi_accel |-> s2.s, gamma_conc |-> s3.s,
                    pin_risk |-> s4.s, gex_flip |-> s5.s,
                    gex_extreme |-> s6.s]
        triggers == s1.trig \o s2.trig \o s3.trig \o s4.trig \o s5.trig
                      \o s6.trig
        probability == CapProbability(WeightedSum(signals))
        score == direction_score(current_data, historical_data)
    IN  IF PinRiskRaises(current_data.spot_price, current_data.atm_strike)
          THEN [NoSignal EXCEPT !.raised = TRUE]
        ELSE [raised |-> FALSE, signals |-> signals, triggers |-> triggers,
              probability |-> probability, direction_score |-> score,
              direction |-> DirectionOf(score),
              confidence |-> ConfidenceOf(probability, Len(triggers)),
              risk_level |-> RiskLevelOf(probability)]

\* the rows and the current metrics the detector is called with
HistRows ==
    {[atm_iv |-> 20, atm_oi |-> 1000, gamma_concentration |-> 5,
      net_gex |-> 500, spot_price |-> 1000],
     [atm_iv |-> 22, atm_oi |-> 1001, gamma_concentration |-> 7,
      net_gex |-> 300, spot_price |-> 1004],
     [atm_iv |-> 0, atm_oi |-> 998, gamma_concentration |-> 5,
      net_gex |-> -100, spot_price |-> 0]}

SpotAndStrike ==
    {<<1000, 1000>>, <<1004, 1000>>, <<1008, 1000>>, <<1020, 1000>>,
     <<0, 1000>>, <<1000, 0>>}

\* current_data without a directional input
Undirected ==
    [ce_itm_chg_oi |-> 0, pe_itm_chg_oi |-> 0, ce_oi_total |-> 0,
     pe_oi_total |-> 0, ce_iv_avg |-> 0, pe_iv_avg |-> 0]

CurrentData ==
    {[atm_iv |-> iv, atm_oi |-> oi, gamma_concentration |-> gc,
      net_gex |-> gex, spot_price |-> ss[1], atm_strike |-> ss[2]]
        @@ Undirected :
        iv \in {0, 20, 35}, oi \in {998, 1001}, gc \in {5, 12},
        gex \in {-400, -1, 0, 500}, ss \in SpotAndStrike}

\* the inputs of the direction: change in ITM OI of each side, the OI totals
\* (PCR 0.5, 0.9, 1.5 and no call OI), the average IVs, the net GEX
ItmChanges == {-15000, -5000, 0, 4000}
OiTotals == {<<1000, 500>>, <<1000, 900>>, <<1000, 1500>>, <<0, 900>>}
IvAverages == {<<0, 0>>, <<20, 20>>, <<23, 20>>, <<20, 23>>}

DirectionData ==
    {[atm_iv |-> 20, atm_oi |-> 1000, gamma_concentration |-> 5,
      net_gex |-> gex, spot_price |-> 1020, atm_strike |-> 1000,
      ce_itm_chg_oi |-> ce, pe_itm_chg_oi |-> pe, ce_oi_total |-> oi[1],
      pe_oi_total |-> oi[2], ce_iv_avg |-> iv[1], pe_iv_avg |-> iv[2]] :
        ce \in ItmChanges, pe \in ItmChanges, oi \in OiTotals,
        iv \in IvAverages, gex \in {-400, 400}}

\* rows whose spot prices and net GEX differ
TrendRows ==
    {[atm_iv |-> 20, atm_oi |-> 1000, gamma_concentration |-> 5,
      net_gex |-> r[1], spot_price |-> r[2]] :
        r \in {<<0, 1000>>, <<300, 1010>>, <<0, 1020>>, <<300, 1000>>}}

\* no row, 3 rows, and 5 rows of which the first three are one row
DirectionHistories ==
    {<<>>} \cup {<<a, b, c>> : a, b, c \in TrendRows}
           \cup {<<a, a, a, b, c>> : a, b, c \in TrendRows}

\* one call detect_gamma_blast(symbol, current_data, historical_data)
call_detect_gamma_blast ==
    /\ ~detect_call.called
    /\ detect_call' =
          [detect_call EXCEPT
              !.called = TRUE,
              !.ret = detect_gamma_blast(
                          detect_call.current_data,
                          detect_call.historical_data,
                          detect_call.rnd_iv, detect_call.rnd_gamma)]
    /\ UNCHANGED <<runVars, rateVars, clockVars, svcVars, tokenVars, slowVars, fastVars,
                   poolVars, pipeVars, engVars, obsVars, score_call,
                   resolve_call, rate_call, signal_call>>

\* ------------------------------------------- the blast signal of one run
\* the longest stored history of one (symbol, expiry) drawn below
MaxStored == 3

\* LIMIT 20 of the detector's history query
detector_limit == 20

\* the keys of one entry of processed_data, the columns of df
DfColumns ==
    {"strike", "ce_oi", "pe_oi", "ce_gamma", "pe_gamma", "ce_gex", "pe_gex",
     "net_gex", "ce_iv", "pe_iv", "ce_delta", "pe_delta"}

\* one entry of processed_data from one strike of the snapshot; the
\* snapshot's prev_oi is not carried over
DfRow(strike_data) ==
    [strike |-> strike_data.strike_price, ce_oi |-> strike_data.ce_oi,
     pe_oi |-> strike_data.pe_oi, ce_gex |-> strike_data.ce_gex,
     pe_gex |-> strike_data.pe_gex,
     net_gex |-> strike_data.ce_gex - strike_data.pe_gex,
     ce_iv |-> strike_data.ce_iv, pe_iv |-> strike_data.pe_iv]

\* processed_data of the strikes with a positive strike price (the snapshot
\* lists its strikes in rising order)
ProcessedData(option_data) ==
    LET usable == SelectSeq(option_data, LAMBDA d : d.strike_price > 0)
    IN  [i \in 1..Len(usable) |-> DfRow(usable[i])]

\* df['strike'].sub(spot_price).abs().idxmin(): the first nearest strike
AtmIdx(df, spot_price) ==
    CHOOSE i \in 1..Len(df) :
       /\ \A j \in 1..Len(df) :
             Abs(df[i].strike - spot_price) <= Abs(df[j].strike - spot_price)
       /\ \A j \in 1..(i - 1) :
             Abs(df[j].strike - spot_price) > Abs(df[i].strike - spot_price)

\* df[<mask>][column].sum() if column in df.columns else 0; mask is the
\* set of the rows selected
MaskedSum(df, column, mask) ==
    IF column \in DfColumns
      THEN SeqSum([i \in 1..Len(df) |->
                      IF i \in mask THEN df[i][column] ELSE 0])
      ELSE 0

\* sum(ivs) / len(ivs) over the positive values, 0 without any
IvAverage(df, column) ==
    LET ivs == SelectSeq([i \in 1..Len(df) |-> df[i][column]], Positive)
    IN  IF ivs = <<>> THEN 0 ELSE SeqSum(ivs) \div Len(ivs)

\* current_data of the detector, lines 1581-1594; OI in thousands, so the
\* ITM changes are brought to contracts
SignalData(df, spot_price, gamma_concentration) ==
    LET atm == df[AtmIdx(df, spot_price)]
        All == 1..Len(df)
    IN  [atm_iv |-> (atm.ce_iv + atm.pe_iv) \div 2,
         atm_oi |-> atm.ce_oi + atm.pe_oi,
         gamma_concentration |-> gamma_concentration,
         net_gex |-> MaskedSum(df, "net_gex", All),
         spot_price |-> spot_price,
         atm_strike |-> atm.strike,
         ce_oi_total |-> MaskedSum(df, "ce_oi", All),
         pe_oi_total |-> MaskedSum(df, "pe_oi", All),
         ce_iv_avg |-> IvAverage(df, "ce_iv"),
         pe_iv_avg |-> IvAverage(df, "pe_iv"),
         ce_itm_chg_oi |->
            OiUnit * MaskedSum(df, "ce_chg_oi",
                               {i \in All : df[i].strike < spot_price}),
         pe_itm_chg_oi |->
            OiUnit * MaskedSum(df, "pe_chg_oi",
                               {i \in All : df[i].strike > spot_price})]

\* SELECT atm_iv, atm_oi, gamma_concentration, net_gex ... ORDER BY
\* timestamp DESC LIMIT 20, as the list of dicts handed to the detector: the
\* newest row comes first; a row has no spot_price, which reads as 0
SignalHistory(rows, read_ok) ==
    LET newest_first == Take(RowsDesc(rows), detector_limit)
    IN  IF read_ok
          THEN [i \in 1..Len(newest_first) |->
                  [atm_iv |-> newest_first[i].atm_iv,
                   atm_oi |-> newest_first[i].atm_oi,
                   gamma_concentration |-> newest_first[i].gamma_concentration,
                   net_gex |-> newest_first[i].net_gex,
                   spot_price |-> 0]]
          ELSE <<>>

\* the detector part of one run of _calculate_and_store_gamma_exposure at
\* time now: the frame of the snapshot, the history query, current_data, the
\* call of the detector, and the row inserted with the signal.  A snapshot
\* of fewer than 3 usable strikes returns before anything is read; an
\* exception of the detector is caught by the function and no row is written
call_store_signal ==
    /\ ~signal_call.called
    /\ LET c == signal_call
           df == ProcessedData(c.option_data)
           current_data == SignalData(df, c.spot_price, c.gamma_concentration)
           historical_data == SignalHistory(c.stored, c.read_ok)
           blast_signal == detect_gamma_blast(current_data, historical_data,
                                              c.rnd_iv, c.rnd_gamma)
           row == [ts |-> c.now, atm_iv |-> current_data.atm_iv,
                   atm_oi |-> current_data.atm_oi,
                   gamma_concentration |-> current_data.gamma_concentration,
                   net_gex |-> current_data.net_gex,
                   gamma_blast_probability |-> blast_signal.probability,
                   predicted_direction |-> blast_signal.direction,
                   confidence_level |-> blast_signal.confidence]
       IN  signal_call' =
              IF Len(df) < min_strikes
                THEN [c EXCEPT !.called = TRUE]
              ELSE [c EXCEPT !.called = TRUE, !.detected = TRUE,
                             !.current_data = current_data,
                             !.historical_data = historical_data,
                             !.ret = blast_signal,
                             !.written = IF blast_signal.raised THEN <<>>
                                         ELSE <<row>>]
    /\ UNCHANGED <<runVars, rateVars, clockVars, svcVars, tokenVars, slowVars, fastVars,
                   poolVars, pipeVars, engVars, obsVars, score_call,
                   detect_call, resolve_call, rate_call>>

\* the rows stored before the run, one per earlier observation
StoredRow(ts, net_gex) ==
    [ts |-> ts, atm_iv |-> 20, atm_oi |-> 1000, gamma_concentration |-> 5,
     net_gex |-> net_gex]

StoredGex == {-100, 500}

StoredHistories ==
    UNION {{{StoredRow(ts, gex[ts]) : ts \in 1..n} :
               gex \in [1..n -> StoredGex]} : n \in 0..MaxStored}

\* one strike of the chain: OI and the previous day's OI in thousands of
\* contracts, the GEX of each side, the IV of both sides
Strike(strike_price, ce, pe, gex) ==
    [strike_price |-> strike_price, ce_oi |-> ce[1], ce_prev_oi |-> ce[2],
     pe_oi |-> pe[1], pe_prev_oi |-> pe[2], ce_gex |-> gex[1],
     pe_gex |-> gex[2], ce_iv |-> 20, pe_iv |-> 20]

\* snapshots around a spot of 1000: the ITM call strike 990 and the ITM put
\* strike 1010 with OI that fell by 15000, by 5000 or not at all, the ATM
\* strike with a net GEX of either sign; and a chain of two strikes
Snapshots ==
    {<<Strike(990, <<20, 20 + ce_fall>>, <<20, 20>>, <<0, 0>>),
       Strike(1000, <<500, 500>>, <<atm_pe, 500>>, gex),
       Strike(1010, <<20, 20>>, <<20, 20 + pe_fall>>, <<0, 0>>)>> :
        ce_fall \in {0, 5, 15}, pe_fall \in {0, 5, 15}, atm_pe \in {498, 500},
        gex \in {<<0, 400>>, <<500, 0>>}}
    \cup {<<Strike(990, <<20, 35>>, <<20, 20>>, <<0, 0>>),
            Strike(1000, <<500, 500>>, <<500, 500>>, <<500, 0>>)>>}

NoSignalCall ==
    [called |-> FALSE, detected |-> FALSE, current_data |-> <<>>,
     historical_data |-> <<>>, ret |-> NoSignal, written |-> <<>>]

\* ------------------------------------------------------------ the resolver
\* the expiry dates a contract list may carry, and its longest length
MaxDate == 3
MaxContracts == 4

\* {c['expiry'] for c in contracts_data['data'] if 'expiry' in c}
ExpiriesOf(contracts) == {contracts[i] : i \in 1..Len(contracts)}

\* _get_all_expiries on a contract list: future_expiries[:max_expiries]
all_expiries_result(contracts, today, max_count) ==
    Take(FutureExpiries(ExpiriesOf(contracts), today), max_count)

\* _get_latest_expiry on a contract list: future_expiries[0], or None
latest_expiry_result(contracts, today) ==
    LET future_expiries == FutureExpiries(ExpiriesOf(contracts), today)
    IN  IF future_expiries # <<>> THEN <<future_expiries[1]>> ELSE None

\* contract lists of up to MaxContracts contracts
RECURSIVE ContractLists(_)
ContractLists(n) ==
    IF n = 0 THEN {<<>>}
    ELSE LET shorter == ContractLists(n - 1)
         IN  shorter \cup {Append(q, d) : q \in {r \in shorter : Len(r) = n - 1},
                                          d \in 0..MaxDate}

call_resolve ==
    /\ ~resolve_call.called
    /\ resolve_call' =
          [resolve_call EXCEPT
              !.called = TRUE,
              !.all = all_expiries_result(resolve_call.contracts,
                                          resolve_call.today,
                                          resolve_call.max_count),
              !.latest = latest_expiry_result(resolve_call.contracts,
                                              resolve_call.today)]
    /\ UNCHANGED <<runVars, rateVars, clockVars, svcVars, tokenVars, slowVars, fastVars,
                   poolVars, pipeVars, engVars, obsVars, score_call,
                   detect_call, rate_call, signal_call>>

\* ---------------------------------------------------------- specifications
InitService ==
    /\ running = TRUE
    /\ executor = "open"
    /\ db = "open"
    /\ process = "alive"
    /\ api_token = "secrets_token"
    /\ cred_token = "secrets_token"
    /\ slowPc = "loop"
    /\ consecutive_errors = 0
    /\ slowErr = "none"
    /\ slowPending = {}
    /\ tokenChecked = FALSE
    /\ fastPc = "loop"
    /\ fastSymbols = <<>>
    /\ fastIdx = 1
    /\ fastInFlight = FALSE
    /\ stopCause = "none"
    /\ stopTod = 0
    /\ offHoursCall = FALSE
    /\ gate = [slow |-> TRUE, fast |-> TRUE]
    /\ needRefresh = [slow |-> FALSE, fast |-> FALSE]
    /\ fastFailures = 0
    /\ thr = [t \in Threads |-> IdleThread]
    /\ clk = 0
    /\ geh = {}
    /\ expiry_cache = [k \in CacheKeys |-> None]
    /\ lastStored = [k \in CacheKeys |-> None]
    /\ batchI = 0
    /\ submitted = 0
    /\ tasks = [k \in BatchIds |-> <<0, 0, 0>>]
    /\ rate_limit_hit = FALSE
    /\ limited_only = TRUE
    /\ cooldown = 0
    /\ slowRunning = [s \in AllSymbols |-> 0]

\* the service is started at any time of a Monday, a Friday or a Saturday
Init ==
    /\ wd0 \in {0, 4, 5}
    /\ day = 0
    /\ tod \in 0..LastSlot
    /\ force_mode \in BOOLEAN
    /\ poolN = 0
    /\ workers = {}
    /\ upstream = {}
    /\ InitService
    /\ score_call = NoCall
    /\ detect_call = NoCall
    /\ resolve_call = NoCall
    /\ rate_call = NoCall
    /\ signal_call = NoCall

Next ==
    \/ Tick
    \/ Signal
    \/ StopJoin
    \/ ProcessExit
    \/ SlowIterate
    \/ SlowWake
    \/ SlowFetchGate
    \/ SlowProcess
    \/ SlowPassDone
    \/ SlowCadence
    \/ FastIterate
    \/ FastLoopExit
    \/ FastWake
    \/ FastStartSymbol
    \/ FastFinishSymbol
    \/ FastPassDone

Spec == Init /\ [][Next]_vars

\* the scheduler with passes that raise; the clock stands within market hours
InitFailure ==
    /\ wd0 = 0
    /\ day = 0
    /\ tod = OpenSlot
    /\ force_mode = FALSE
    /\ poolN = 0
    /\ workers = {}
    /\ upstream = {}
    /\ InitService
    /\ score_call = NoCall
    /\ detect_call = NoCall
    /\ resolve_call = NoCall
    /\ rate_call = NoCall
    /\ signal_call = NoCall

NextFailure ==
    \/ Signal
    \/ StopJoin
    \/ ProcessExit
    \/ SlowIterate
    \/ SlowFetchGate
    \/ SlowProcess
    \/ SlowPassDone
    \/ SlowCadence
    \/ SlowRaise
    \/ SlowHandleError
    \/ FastIterate
    \/ FastLoopExit
    \/ FastStartSymbol
    \/ FastFinishSymbol
    \/ FastPassDone
    \/ FastRaise
    \/ FastHandleError

SpecFailure == InitFailure /\ [][NextFailure]_vars

\* the passes of the main loop through the executor, with the index thread
\* and the shutdown; the clock stands within market hours
NextPool ==
    \/ Signal
    \/ StopJoin
    \/ ProcessExit
    \/ SlowIterate
    \/ PoolFetchGate
    \/ PoolSubmit
    \/ PoolSubmitDone
    \/ WorkerStart
    \/ WorkerFinish
    \/ PoolBatchJoin
    \/ SlowCadence

\* the stock symbols of a pass fill one batch exactly, or two batches
InitPool ==
    /\ wd0 = 0
    /\ day = 0
    /\ tod = OpenSlot
    /\ force_mode = FALSE
    /\ poolN \in PassSizes
    /\ workers = {}
    /\ upstream = {}
    /\ InitService
    /\ score_call = NoCall
    /\ detect_call = NoCall
    /\ resolve_call = NoCall
    /\ rate_call = NoCall
    /\ signal_call = NoCall

SpecPool == InitPool /\ [][NextPool]_vars

\* shutdown while both loops work: a pass of max_workers + 1 stock symbols
InitShutdown ==
    /\ wd0 = 0
    /\ day = 0
    /\ tod = OpenSlot
    /\ force_mode = FALSE
    /\ poolN = max_workers + 1
    /\ workers = {}
    /\ upstream = {}
    /\ InitService
    /\ score_call = NoCall
    /\ detect_call = NoCall
    /\ resolve_call = NoCall
    /\ rate_call = NoCall
    /\ signal_call = NoCall

NextShutdown ==
    \/ Signal
    \/ StopJoin
    \/ ProcessExit
    \/ SlowIterate
    \/ PoolFetchGate
    \/ PoolSubmit
    \/ PoolSubmitDone
    \/ WorkerStart
    \/ WorkerFinish
    \/ PoolBatchJoin
    \/ SlowCadence
    \/ FastIterate
    \/ FastLoopExit
    \/ FastStartSymbol
    \/ FastFinishSymbol
    \/ FastPassDone

SpecShutdown == InitShutdown /\ [][NextShutdown]_vars

ProcessSymbolStep ==
    \E t \in Threads :
        \/ ProcessSymbol(t)
        \/ get_all_expiries(t)
        \/ latest_expiry_in(t)
        \/ latest_expiry_get(t)
        \/ latest_expiry_call(t)
        \/ fetch_option_chain(t)
        \/ store_option_chain(t)
        \/ derive_summaries(t)

\* one thread runs _process_symbol again and again while the clock advances
InitPipeline ==
    /\ wd0 = 0
    /\ day = 0
    /\ tod \in {0, OpenSlot}
    /\ force_mode = TRUE
    /\ poolN = 0
    /\ workers = {"index"}
    /\ upstream \in Listings
    /\ InitService
    /\ score_call = NoCall
    /\ detect_call = NoCall
    /\ resolve_call = NoCall
    /\ rate_call = NoCall
    /\ signal_call = NoCall

NextPipeline ==
    \/ Tick
    \/ UpstreamRelist
    \/ ProcessSymbolStep

SpecPipeline == InitPipeline /\ [][NextPipeline]_vars

\* the index thread and a pool thread run _process_symbol while the main
\* thread refreshes the credential
InitShared ==
    /\ wd0 = 0
    /\ day = 0
    /\ tod = OpenSlot
    /\ force_mode = FALSE
    /\ poolN = 0
    /\ workers = Threads
    /\ upstream \in Listings
    /\ InitService
    /\ score_call = NoCall
    /\ detect_call = NoCall
    /\ resolve_call = NoCall
    /\ rate_call = NoCall
    /\ signal_call = NoCall

NextShared ==
    \/ RefreshAccessToken
    \/ ProcessSymbolStep

SpecShared == InitShared /\ [][NextShared]_vars

\* the engine runs again and again on the snapshots of one (symbol, expiry)
InitEngine ==
    /\ wd0 = 0
    /\ day = 0
    /\ tod = OpenSlot
    /\ force_mode = FALSE
    /\ poolN = 0
    /\ workers = {"index"}
    /\ upstream = {}
    /\ InitService
    /\ score_call = NoCall
    /\ detect_call = NoCall
    /\ resolve_call = NoCall
    /\ rate_call = NoCall
    /\ signal_call = NoCall

NextEngine ==
    \/ Elapse
    \/ calculate_and_store_gamma_exposure

SpecEngine == InitEngine /\ [][NextEngine]_vars

\* ---- the score function alone, over its arguments
InitScore ==
    /\ wd0 = 0
    /\ day = 0
    /\ tod = OpenSlot
    /\ force_mode = FALSE
    /\ poolN = 0
    /\ workers = {}
    /\ upstream = {}
    /\ InitService
    /\ \E current \in ScoreCurrents, historical \in ListsOf(ScoreValues),
          fallback_threshold \in FallbackThresholds :
          \E rnd \in RoundingsOf(historical) :
             score_call = [called |-> FALSE, current |-> current,
                           historical |-> historical,
                           fallback_threshold |-> fallback_threshold,
                           rnd |-> rnd, ret |-> IntScore(0)]
    /\ detect_call = NoCall
    /\ resolve_call = NoCall
    /\ rate_call = NoCall
    /\ signal_call = NoCall

NextScore == call_calculate_z_score

SpecScore == InitScore /\ [][NextScore]_vars

\* ---- the detector alone, over its arguments
InitDetector ==
    /\ wd0 = 0
    /\ day = 0
    /\ tod = OpenSlot
    /\ force_mode = FALSE
    /\ poolN = 0
    /\ workers = {}
    /\ upstream = {}
    /\ InitService
    /\ score_call = NoCall
    /\ resolve_call = NoCall
    /\ rate_call = NoCall
    /\ signal_call = NoCall
    /\ \E current_data \in CurrentData, historical_data \in ListsOf(HistRows) :
          \E rnd_iv \in RoundingsOf(
                 SelectSeq(Column(historical_data, "atm_iv"), Positive)),
             rnd_gamma \in RoundingsOf(
                 Column(historical_data, "gamma_concentration")) :
             detect_call = [called |-> FALSE, current_data |-> current_data,
                            historical_data |-> historical_data,
                            rnd_iv |-> rnd_iv, rnd_gamma |-> rnd_gamma,
                            ret |-> NoSignal]

NextDetector == call_detect_gamma_blast

SpecDetector == InitDetector /\ [][NextDetector]_vars

\* ---- the detector over the inputs of the direction
InitDirection ==
    /\ wd0 = 0
    /\ day = 0
    /\ tod = OpenSlot
    /\ force_mode = FALSE
    /\ poolN = 0
    /\ workers = {}
    /\ upstream = {}
    /\ InitService
    /\ score_call = NoCall
    /\ resolve_call = NoCall
    /\ rate_call = NoCall
    /\ signal_call = NoCall
    /\ \E current_data \in DirectionData,
          historical_data \in DirectionHistories :
             detect_call = [called |-> FALSE, current_data |-> current_data,
                            historical_data |-> historical_data,
                            rnd_iv |-> 0, rnd_gamma |-> 0,
                            ret |-> NoSignal]

SpecDirection == InitDirection /\ [][NextDetector]_vars

\* ---- the resolver over contract lists
InitResolver ==
    /\ wd0 = 0
    /\ day = 0
    /\ tod = OpenSlot
    /\ force_mode = FALSE
    /\ poolN = 0
    /\ workers = {}
    /\ upstream = {}
    /\ InitService
    /\ score_call = NoCall
    /\ detect_call = NoCall
    /\ rate_call = NoCall
    /\ signal_call = NoCall
    /\ \E contracts \in ContractLists(MaxContracts), today \in 0..MaxDate,
          max_count \in {1, max_expiries} :
             resolve_call = [called |-> FALSE, contracts |-> contracts,
                             today |-> today, max_count |-> max_count,
                             all |-> <<>>, latest |-> None]

NextResolver == call_resolve

\* ---- the rates of the derivative engine over both classes of symbol
InitRates ==
    /\ wd0 = 0
    /\ day = 0
    /\ tod = OpenSlot
    /\ force_mode = FALSE
    /\ poolN = 0
    /\ workers = {}
    /\ upstream = {}
    /\ InitService
    /\ score_call = NoCall
    /\ detect_call = NoCall
    /\ resolve_call = NoCall
    /\ signal_call = NoCall
    /\ \E is_index \in BOOLEAN, gap \in {1, MaxClk}, dt \in {0, 1, MaxClk},
          oi \in RateOis, iv \in RateIvs :
          \E all \in RateRows(gap) :
             rate_call = [called |-> FALSE, is_index |-> is_index,
                          all |-> all, atm_oi |-> oi, atm_iv |-> iv,
                          now |-> (IF all = <<>> THEN 0 ELSE all[1].ts) + dt,
                          distinct |-> 0, raised |-> FALSE, ret |-> ColdStart]

NextRates == call_derivatives

SpecRates == InitRates /\ [][NextRates]_vars

SpecResolver == InitResolver /\ [][NextResolver]_vars

\* ---- the blast signal of one run over stored rows and a snapshot; with
\* fewer than 10 stored rows the rounding of a mean plays no part
InitSignal ==
    /\ wd0 = 0
    /\ day = 0
    /\ tod = OpenSlot
    /\ force_mode = FALSE
    /\ poolN = 0
    /\ workers = {}
    /\ upstream = {}
    /\ InitService
    /\ score_call = NoCall
    /\ detect_call = NoCall
    /\ resolve_call = NoCall
    /\ rate_call = NoCall
    /\ \E stored \in StoredHistories, option_data \in Snapshots,
          read_ok \in BOOLEAN :
          signal_call =
             [stored |-> stored, option_data |-> option_data,
              spot_price |-> 1000, gamma_concentration |-> 5,
              read_ok |-> read_ok, now |-> Cardinality(stored) + 1,
              rnd_iv |-> 0, rnd_gamma |-> 0] @@ NoSignalCall

NextSignal == call_store_signal

SpecSignal == InitSignal /\ [][NextSignal]_vars

\* ---- the passes of the main loop through the executor, with turns of the
\* loop that raise before the pass; the clock stands within market hours
NextBudget ==
    \/ SlowIterate
    \/ SlowRaise
    \/ SlowHandleError
    \/ PoolFetchGate
    \/ PoolSubmit
    \/ PoolSubmitDone
    \/ WorkerStart
    \/ WorkerFinish
    \/ PoolBatchJoin
    \/ SlowCadence
    \/ StopJoin
    \/ ProcessExit

InitBudget == InitPool /\ poolN = batch_size

SpecBudget == InitBudget /\ [][NextBudget]_vars


\* ---- both loops with the futures of the main loop's pass per symbol; the
\* clock stands within market hours
NextRuns ==
    \/ SlowIterate
    \/ SlowFetchGate
    \/ RunSubmit
    \/ RunFinish
    \/ RunPassDone
    \/ SlowCadence
    \/ FastIterate
    \/ FastStartSymbol
    \/ FastFinishSymbol
    \/ FastPassDone

SpecRuns == InitFailure /\ [][NextRuns]_vars



\* ------------------------------------------------------------------ claims
Range(q) == {q[i] : i \in 1..Len(q)}

\* C1: with force mode off, no upstream expiry-list or chain-snapshot call is
\* issued by either loop at a moment at which the market-hours predicate is
\* false.
C1_NoCallOutsideMarketHours == ~force_mode => ~offHoursCall

\* what the code does guarantee: with force mode off a pass is only started
\* at a moment at which the predicate is true
PassesStartInMarketHours ==
    ~force_mode =>
        /\ (slowPc = "pass" => gate.slow)
        /\ (fastPc = "pass" => gate.fast)

C2_StoppedState ==
    /\ (stopCause = "market_closed" =>
            /\ ~force_mode
            /\ stopTod > CloseSlot
            /\ ~running)
    /\ (fastPc = "stopped" => ~running)
    /\ (slowPc = "closed_wait" => running /\ process = "alive")

C2_CheckStep ==
    /\ (slowPc = "loop" /\ slowPc' # "loop" /\ stopCause' # "signal") =>
            IF force_mode \/ WithinMarketHours THEN slowPc' = "fetch"
            ELSE IF tod > CloseSlot
                   THEN slowPc' = "stopping" /\ stopCause' = "market_closed"
                   ELSE slowPc' = "closed_wait" /\ running'
    /\ (fastPc = "loop" /\ fastPc' \notin {"loop", "killed", "stopped"}) =>
            IF force_mode \/ WithinMarketHours THEN fastPc' = "pass"
            ELSE fastPc' = "closed_wait"
    /\ (slowPc = "closed_wait" => slowPc' \in {"closed_wait", "loop", "stopping"})
    /\ (fastPc = "closed_wait" => fastPc' \in {"closed_wait", "loop", "killed"})

C5_FailureBudgetInBothLoops ==
    /\ (slowPc \in {"loop", "fetch", "pass", "cadence"} =>
            consecutive_errors < ErrorLimit(TRUE))
    /\ (fastPc \in {"loop", "pass"} => fastFailures < max_consecutive_errors)

\* the part of C5 the main loop does satisfy
C5_MainLoopBudget ==
    /\ consecutive_errors <= ErrorLimit(TRUE)
    /\ (slowPc \in {"loop", "fetch", "pass", "cadence"} =>
            consecutive_errors < ErrorLimit(TRUE))
    /\ (consecutive_errors >= ErrorLimit(TRUE) => stopCause = "budget")

\* C6: after a pass failed with a credential-class exception, a credential
\* refresh is attempted before the next pass of that loop starts.
C6_RefreshBeforeNextPass ==
    /\ (slowPc \in {"fetch", "pass"} => ~needRefresh.slow)
    /\ (fastPc = "pass" => ~needRefresh.fast)

\* the part of C6 the main loop does satisfy
C6_MainLoopRefresh == slowPc \in {"loop", "fetch", "pass", "cadence"} => ~needRefresh.slow

\* C9: in every pass the main loop processes no symbol of the index set, the
\* index thread processes only symbols of that set, and the two sets of
\* symbols are disjoint.
C9_LoopSymbolSetsDisjoint ==
    /\ slowPending \cap realtime_indices = {}
    /\ Range(fastSymbols) \subseteq realtime_indices
    /\ slowPending \cap Range(fastSymbols) = {}

\* both loops are in a pass, each with symbols to process
C9_Witness ==
    /\ slowPc = "pass" /\ slowPending # {}
    /\ fastPc = "pass" /\ fastIdx <= Len(fastSymbols)

\* C3: at every moment at most max_workers (5) symbol tasks of the slow loop
\* execute, whatever the batch size (43), and every task queued or executing
\* belongs to the current batch: a batch has tasks submitted only when every
\* task of the batch before it has completed.
C3_BoundedPoolOneBatch ==
    /\ TotalRunning <= max_workers
    /\ \A k \in BatchIds :
          /\ (k # CurrentBatch => Queued(k) = 0 /\ Running(k) = 0)
          /\ (k > 0 /\ Queued(k) + Running(k) + Finished(k) > 0 =>
                 Finished(k - 1) = batch_size)

\* all 5 workers execute tasks of the second batch while one more is queued
C3_Witness ==
    /\ CurrentBatch = 1
    /\ Running(1) = max_workers
    /\ Queued(1) > 0
    /\ Finished(0) = batch_size

\* C7: after a shutdown signal every fetch pipeline in flight in either loop
\* has finished before the worker pool and the store's connection pool are
\* released, and both are released before the process exits.
C7_CleanShutdown ==
    stopCause = "signal" =>
        /\ (executor = "shutdown" \/ db = "closed" =>
                PoolIdle /\ ~fastInFlight)
        /\ (process = "exited" =>
                executor = "shutdown" /\ db = "closed" /\ ~fastInFlight)

\* the part of C7 that holds for the futures of the worker pool
C7_PoolJoined ==
    /\ (executor = "shutdown" \/ db = "closed" => PoolIdle)
    /\ (process = "exited" => executor = "shutdown" /\ db = "closed")
    /\ (~running => slowPc \in {"stopping", "exiting", "done"})

\* C4: for each expiry of one symbol the steps run in the order expiry
\* resolution, snapshot fetch, raw store write, derived summaries; a step is
\* under way only when every earlier step of that expiry completed
\* successfully.
C4_PipelineOrder ==
    \A t \in Threads :
        LET w == thr[t] IN
        /\ (w.pc \in {"idle", "all_expiries", "latest_in", "latest_get",
                      "latest_call"} => w.done = {})
        /\ (w.pc = "fetch" =>
               w.done = {"resolve"} /\ w.idx \in 1..Len(w.expiry_dates))
        /\ (w.pc = "store" => w.done = {"resolve", "fetch"})
        /\ (w.pc = "derive" => w.done = {"resolve", "fetch", "store"})

C4_Witness ==
    \E t \in Threads :
        /\ thr[t].pc = "derive"
        /\ thr[t].idx = max_expiries
        /\ thr[t].success_count = 0

\* C10: a lookup after market close on day D+1 of an entry stored before
\* market close on day D is not a hit, and the resolver goes on to call the
\* expiry-list endpoint.
C10_NextDayLookupMisses ==
    \A t \in Threads :
        LET w == thr[t]
            l == w.lookup
        IN  (l.e # None /\ l.e[3] < CloseSlot /\ l.d = l.e[2] + 1
                /\ l.t > CloseSlot) =>
               /\ ~l.hit
               /\ (w.pc = "latest_call" \/ w.called)

C10_Witness ==
    \E t \in Threads :
        LET w == thr[t]
            l == w.lookup
        IN  /\ l.e # None /\ l.e[3] < CloseSlot /\ l.d = l.e[2] + 1
            /\ l.t > CloseSlot
            /\ w.called
            /\ w.pc = "fetch"

\* C8: every entry of the expiry cache is exactly the entry one resolver
\* store wrote, a key found by the membership test is still there at the
\* read that follows, the credential is always a whole token, and only the
\* resolver's store changes the cache (and only its own key), only the
\* refresh path changes the credential.
C8_SharedState ==
    /\ \A k \in CacheKeys : expiry_cache[k] = lastStored[k]
    /\ \A t \in Threads :
          thr[t].pc = "latest_get" => expiry_cache[SymbolOf(t)] # None
    /\ api_token \in {"secrets_token", "extended_token", "managed_token"}

C8_WriterStep ==
    /\ (expiry_cache' # expiry_cache =>
           \E t \in workers :
              /\ thr[t].pc = "latest_call"
              /\ thr'[t].pc = "fetch"
              /\ \A k \in CacheKeys \ {SymbolOf(t)} :
                    expiry_cache'[k] = expiry_cache[k])
    /\ (api_token' # api_token => UNCHANGED pipeVars)

C12_SecondRetryWaitsDouble ==
    \A t \in Threads :
        LET w == thr[t]
            c == w.cached
        IN  (c.why = "rate_limit" /\ Len(w.rl_waits) = c.calls - 1) =>
               /\ Len(w.rl_waits) >= 2
               /\ w.rl_waits[2] >= 2 * rate_limit_base

\* what the retry loop of the resolver does: max_retries calls in all, one
\* retry, after the base delay
C12_OneRetryAfterBaseDelay ==
    \A t \in Threads :
        LET w == thr[t]
            c == w.cached
        IN  /\ Len(w.rl_waits) <= max_retries - 1
            /\ \A i \in 1..Len(w.rl_waits) : w.rl_waits[i] = rate_limit_base
            /\ (c.why = "rate_limit" => c.calls = max_retries)

\* the rows stored before row r, and among them the run of newest rows that
\* carry the same atm_oi and atm_iv as the newest one
PriorRows(r) == {x \in geh : x.ts < r.ts}
SameReading(x, y) == x.atm_oi = y.atm_oi /\ x.atm_iv = y.atm_iv
LatestRun(r) ==
    {x \in PriorRows(r) :
        \A y \in PriorRows(r) :
            y.ts >= x.ts =>
                \A z \in PriorRows(r) : z.ts >= y.ts => SameReading(y, z)}

\* C13: the rates of a changed row are taken over the time since the row at
\* which the repeated values first appeared (the oldest row of the run of
\* duplicates), not since the newest duplicate.
C13_VelocityFromFirstDistinctRow ==
    \A r \in geh :
        r.p1_time # -1 =>
            \A x \in LatestRun(r) : r.p1_time <= x.ts

\* what the engine does: the rates are taken over the time since the newest
\* stored row, which is the last duplicate
C13_VelocityFromNewestRow ==
    \A r \in geh :
        r.p1_time # -1 =>
            /\ r.p1_time \in {x.ts : x \in PriorRows(r)}
            /\ \A x \in PriorRows(r) : x.ts <= r.p1_time

\* C14: two runs on identical snapshots within one wall-clock second leave
\* one row for that second.
C14_OneRowPerSecond ==
    \A r1, r2 \in geh :
        (SecondOf(r1.ts) = SecondOf(r2.ts) /\ SameReading(r1, r2)) => r1 = r2

\* what the upsert gives: one row per timestamp
C14_OneRowPerTimestamp ==
    \A r1, r2 \in geh : r1.ts = r2.ts => r1 = r2

\* a call of the detector that returned a signal
Detected == detect_call.called /\ ~detect_call.ret.raised

\* C15: the probability of every returned signal is between 0 and 0.95: each
\* of the six sub-signals is between 0 and 1, the weights sum to 1.0 and the
\* weighted sum is capped at 0.95.
C15_ProbabilityInRange ==
    /\ weights.iv + weights.oi_accel + weights.gamma_conc + weights.pin_risk
         + weights.gex_flip + weights.gex_extreme = 100
    /\ Detected =>
          /\ \A k \in SignalNames : detect_call.ret.signals[k] \in 0..100
          /\ detect_call.ret.probability \in 0..probability_cap
          /\ detect_call.ret.probability =
                Min2(probability_cap, WeightedSum(detect_call.ret.signals))

\* the six sub-signals are all 1.0 and the cap acts
C15_Witness ==
    /\ Detected
    /\ WeightedSum(detect_call.ret.signals) > probability_cap
    /\ detect_call.ret.probability = probability_cap

\* C16: _process_symbol reports success exactly when
\* _fetch_and_store_option_chain returned True for at least one of the
\* resolved expiries, and every resolved expiry is attempted whatever the
\* outcome of the ones before it.
C16_SuccessIffOneExpiryStored ==
    \A t \in Threads :
        LET w == thr[t] IN
        /\ (w.pc \in {"fetch", "store", "derive"} =>
               1..(w.idx - 1) \subseteq w.tried)
        /\ (w.pc = "idle" /\ w.result # "none" =>
               /\ w.result = "true" <=> w.ok_idx # {}
               /\ w.tried = 1..w.n_expiries
               /\ w.ok_idx \subseteq w.tried)

\* the first of two expiries failed, the second was stored
C16_Witness ==
    \E t \in Threads :
        /\ thr[t].pc = "idle"
        /\ thr[t].result = "true"
        /\ thr[t].n_expiries = max_expiries
        /\ thr[t].ok_idx = {max_expiries}

\* C17: a row written when the history read gave no row (none stored, or the
\* read failed) has velocity, acceleration and unwinding intensity 0, and no
\* stored row was compared with.
C17_ColdStartZero ==
    \A r \in geh :
        r.history_read = 0 =>
            /\ r.oi_velocity = Zero
            /\ r.iv_velocity = Zero
            /\ r.oi_acceleration = Zero
            /\ r.unwinding_intensity = Zero
            /\ r.p1_time = -1

\* a first insertion, and a later row written after a failed read although a
\* row with other values is stored
C17_Witness ==
    \E r1, r2 \in geh :
        /\ r1.ts < r2.ts
        /\ r1.history_read = 0
        /\ r2.history_read = 0
        /\ ~SameReading(r1, r2)

\* sparse tier of a call: fewer than 3 historical points
SparseCall ==
    score_call.called /\ Len(score_call.historical) < 3

\* C18: with fewer than 3 historical points the score is 1 when current is
\* above the fallback threshold and 0 otherwise, for every threshold passed,
\* the default 0 included.
C18_SparseTierEveryThreshold ==
    SparseCall =>
        score_call.ret =
            IF score_call.current > score_call.fallback_threshold
              THEN IntScore(1) ELSE IntScore(0)

\* what the function does: the comparison is made for a positive threshold
\* only; with a threshold of 0 or less (the default is 0) the score is 0 for
\* every current value
C18_SparseTierPositiveThreshold ==
    SparseCall =>
        score_call.ret =
            IF /\ score_call.fallback_threshold > 0
               /\ score_call.current > score_call.fallback_threshold
              THEN IntScore(1) ELSE IntScore(0)

\* both cases: a value above a positive threshold, and a value above the
\* default threshold
C18_Witness ==
    /\ SparseCall
    /\ score_call.fallback_threshold > 0
    /\ score_call.current > score_call.fallback_threshold
    /\ score_call.ret = IntScore(1)

C18_DefaultThresholdWitness ==
    /\ SparseCall
    /\ score_call.fallback_threshold = DefaultThreshold
    /\ score_call.current > DefaultThreshold
    /\ score_call.ret = IntScore(0)

\* C19: with 10 historical points or more that are all equal the score is 0
\* for every current value.
C19_EqualHistoryScoresZero ==
    (/\ score_call.called
     /\ Len(score_call.historical) >= 10
     /\ AllEqual(score_call.historical))
        => score_call.ret = IntScore(0)

\* what the function gives for such a list: 0 when the computed mean is the
\* value itself, else -1 or +1 for the value itself and a score beyond every
\* threshold for any other current value; a deviation of 0 is never divided by
C19_EqualHistoryScores ==
    (/\ score_call.called
     /\ Len(score_call.historical) >= 10
     /\ AllEqual(score_call.historical))
        => /\ score_call.ret.var > 0
           /\ score_call.rnd = 0 => score_call.ret = IntScore(0)
           /\ score_call.rnd # 0 =>
                 IF score_call.current = score_call.historical[1]
                   THEN score_call.ret \in {IntScore(-1), IntScore(1)}
                   ELSE score_call.ret.huge

\* the net_gex of the last row of historical_data and of current_data are
\* non-zero with opposite signs
SignFlip ==
    LET h == detect_call.historical_data
        prev_gex == h[Len(h)].net_gex
        curr_gex == detect_call.current_data.net_gex
    IN  /\ Len(h) > 0
        /\ (prev_gex > 0 /\ curr_gex < 0) \/ (prev_gex < 0 /\ curr_gex > 0)

FlipExceedsHalf ==
    LET h == detect_call.historical_data
        prev_gex == h[Len(h)].net_gex
        curr_gex == detect_call.current_data.net_gex
    IN  2 * Abs(curr_gex - prev_gex) > Abs(prev_gex)

\* C20: a sign flip whose magnitude exceeds 50% of the previous exposure gives
\* the GEX-flip sub-signal 1.0 and the 'Strong' trigger; without a sign
\* change, or without history, the sub-signal is 0.
C20_StrongFlip ==
    Detected =>
       /\ (SignFlip /\ FlipExceedsHalf) =>
             /\ detect_call.ret.signals.gex_flip = 100
             /\ \E i \in 1..Len(detect_call.ret.triggers) :
                   detect_call.ret.triggers[i] = "GEX Flip Detected (Strong)"
       /\ ~SignFlip => detect_call.ret.signals.gex_flip = 0

\* previous exposure +500 thousand, current -400 thousand
C20_Witness ==
    /\ Detected
    /\ SignFlip
    /\ detect_call.historical_data[Len(detect_call.historical_data)].net_gex
          = 500
    /\ detect_call.current_data.net_gex = -400
    /\ detect_call.ret.signals.gex_flip = 100

\* the call has only the ITM change in OI and the PCR as directional inputs:
\* no history (no GEX percentile, no spot trend) and no IV skew
OnlyItmAndPcr ==
    /\ detect_call.historical_data = <<>>
    /\ detect_call.current_data.ce_iv_avg = 0
    /\ detect_call.current_data.pe_iv_avg = 0

\* the score the statement gives to the ITM change in OI and the PCR
ItmAndPcrScore ==
    LET d == detect_call.current_data
        ce == IF d.ce_itm_chg_oi < -10000 THEN 3
              ELSE IF d.ce_itm_chg_oi < 0 THEN 2 ELSE 0
        pe == IF d.pe_itm_chg_oi < -10000 THEN -3
              ELSE IF d.pe_itm_chg_oi < 0 THEN -2 ELSE 0
        pcr == IF d.ce_oi_total = 0 THEN 0
               ELSE IF 10 * d.pe_oi_total < 7 * d.ce_oi_total THEN 1
               ELSE IF 10 * d.pe_oi_total > 13 * d.ce_oi_total THEN -1
               ELSE 0
    IN  ce + pe + pcr

\* C21: the direction is a function of the integer score: UPSIDE exactly when
\* the score is 2 or more, DOWNSIDE exactly when it is -2 or less, NEUTRAL
\* otherwise; call-side ITM unwinding counts +3 / +2, put-side -3 / -2, a PCR
\* below 0.7 counts +1 and above 1.3 counts -1; ITM call OI change -15,000,
\* put change 0, PCR 0.9 and nothing else scores +3, UPSIDE.
C21_DirectionFromScore ==
    Detected =>
       LET ret == detect_call.ret
       IN  /\ (ret.direction = "UPSIDE") <=> (ret.direction_score >= 2)
           /\ (ret.direction = "DOWNSIDE") <=> (ret.direction_score <= -2)
           /\ (ret.direction = "NEUTRAL") <=>
                 (ret.direction_score > -2 /\ ret.direction_score < 2)
           /\ OnlyItmAndPcr => ret.direction_score = ItmAndPcrScore

\* ITM call OI change -15,000, put change 0, PCR 0.9, nothing else
C21_Witness ==
    /\ Detected
    /\ OnlyItmAndPcr
    /\ detect_call.current_data.ce_itm_chg_oi = -15000
    /\ detect_call.current_data.pe_itm_chg_oi = 0
    /\ detect_call.current_data.ce_oi_total = 1000
    /\ detect_call.current_data.pe_oi_total = 900
    /\ detect_call.ret.direction_score = 3
    /\ detect_call.ret.direction = "UPSIDE"

\* C22: the confidence is CRITICAL exactly when the probability exceeds 0.7
\* with 4 triggers or more, else VERY_HIGH exactly when it exceeds 0.6 with 3
\* or more, else HIGH above 0.4, else MEDIUM above 0.25, else LOW; the risk
\* level is EXTREME above 0.75, HIGH above 0.6, ELEVATED above 0.4, else LOW.
C22_ConfidenceAndRisk ==
    Detected =>
       LET ret == detect_call.ret
           p == ret.probability
           n == Len(ret.triggers)
           critical == p > 7000 /\ n >= 4
           very_high == ~critical /\ p > 6000 /\ n >= 3
           high == ~critical /\ ~very_high /\ p > 4000
           medium == ~critical /\ ~very_high /\ ~high /\ p > 2500
       IN  /\ (ret.confidence = "CRITICAL") <=> critical
           /\ (ret.confidence = "VERY_HIGH") <=> very_high
           /\ (ret.confidence = "HIGH") <=> high
           /\ (ret.confidence = "MEDIUM") <=> medium
           /\ (ret.confidence = "LOW") <=>
                 ~(critical \/ very_high \/ high \/ medium)
           /\ (ret.risk_level = "EXTREME") <=> (p > 7500)
           /\ (ret.risk_level = "HIGH") <=> (p > 6000 /\ p <= 7500)
           /\ (ret.risk_level = "ELEVATED") <=> (p > 4000 /\ p <= 6000)
           /\ (ret.risk_level = "LOW") <=> (p <= 4000)

\* a probability above 0.6 whose trigger count keeps the confidence at HIGH
C22_Witness ==
    /\ Detected
    /\ detect_call.ret.probability > 6000
    /\ Len(detect_call.ret.triggers) < 3
    /\ detect_call.ret.confidence = "HIGH"
    /\ detect_call.ret.risk_level \in {"HIGH", "EXTREME"}

\* C23: the instrument mapping is never empty and contains every index of the
\* fast loop's fixed set, on the successful path and on the fallback path:
\* every pass of the fast loop, which filters the mapping by that set,
\* iterates over the whole set.
C23_MappingHasEveryFastIndex ==
    fastPc = "pass" =>
       /\ fastSymbols # <<>>
       /\ realtime_indices \subseteq Range(fastSymbols)

\* the step ends with the same chain fetch being attempted once more
FetchRetried(t) ==
    /\ thr'[t].pc = "fetch"
    /\ thr'[t].idx = thr[t].idx
    /\ thr'[t].attempt = thr[t].attempt + 1

\* C24: a chain-snapshot fetch answered with the rate-limit code is retried,
\* up to the fixed number of attempts, with a delay that doubles; it is given
\* up only after the attempts are exhausted.
C24_RateLimitedFetchRetried ==
    [][\A t \in workers :
          (/\ option_chain_attempt(t, "rate_limit")
           /\ api_token # NoToken
           /\ thr[t].attempt < fetch_max_retries - 1)
          => /\ FetchRetried(t)
             /\ thr'[t].net_waits
                  = Append(thr[t].net_waits,
                           retry_delay * (2 ^ thr[t].attempt))]_vars

\* the waits of the network retries of a chain fetch: at most two, 5 s each
FiveSecondWaits(w) ==
    /\ Len(w.net_waits) <= 2
    /\ \A i \in 1..Len(w.net_waits) : w.net_waits[i] = 5
    /\ w.pc = "fetch" => w.attempt = Len(w.net_waits) /\ w.attempt < 3

\* the step ends the chain fetch of the current expiry without success
FetchFailed(t) ==
    /\ thr[t].idx \notin thr'[t].ok_idx
    /\ \/ thr'[t].pc = "idle"
       \/ thr'[t].pc = "fetch" /\ thr'[t].idx = thr[t].idx + 1
                               /\ thr'[t].attempt = 0

\* C26: on a network-class error the chain fetch is attempted at most 3
\* times, with a constant delay of 5 s between attempts; a successful attempt
\* ends the retries; after the last failed attempt the fetch reports failure.
C26_NetworkRetries ==
    /\ [](\A t \in workers : FiveSecondWaits(thr[t]))
    /\ [][\A t \in workers :
            /\ (option_chain_attempt(t, "network") /\ api_token # NoToken)
               => IF thr[t].attempt < 2
                    THEN /\ FetchRetried(t)
                         /\ thr'[t].net_waits = Append(thr[t].net_waits, 5)
                    ELSE FetchFailed(t)
            /\ (option_chain_attempt(t, "data") /\ api_token # NoToken)
               => thr'[t].pc = "store"]_vars

\* three attempts answered by network errors, two waits of 5 s, and
\* _process_symbol has returned False
C26_Witness ==
    \E t \in workers :
       /\ thr[t].pc = "idle"
       /\ thr[t].result = "false"
       /\ thr[t].net_waits = <<5, 5>>
       /\ thr[t].tried = {1}
       /\ thr[t].ok_idx = {}

\* C27: an upstream error that is neither a rate limit nor a network error
\* fails fast: the expiry resolution or the snapshot fetch that received it
\* makes no further upstream call.
C27_OtherErrorsFailFast ==
    [][\A t \in workers :
          (/\ api_token # NoToken
           /\ \/ all_expiries_attempt(t, "other")
              \/ latest_expiry_attempt(t, "other")
              \/ option_chain_attempt(t, "other"))
          => ~(thr'[t].pc = thr[t].pc
                 /\ thr'[t].attempt = thr[t].attempt + 1)]_vars

\* C28: a chain fetch answered with a credential-expired error is retried
\* exactly once, after the refresh of the credential.
C28_CredentialErrorRetriedOnce ==
    [][\A t \in workers :
          (/\ option_chain_attempt(t, "credential")
           /\ api_token # NoToken
           /\ thr[t].attempt = 0)
          => FetchRetried(t)]_vars

\* C29: when the resolution of the latest expiry ends on an upstream error,
\* whatever its class, and the cache holds an entry for the key, the
\* resolution returns the cached date, even a stale one.
C29_CachedValueAfterAnyFailure ==
    [][\A t \in workers : \A reply \in ErrorReplies \cup {"rate_limit"} :
          (/\ latest_expiry_attempt(t, reply)
           /\ thr'[t].pc # "latest_call"
           /\ expiry_cache[SymbolOf(t)] # None)
          => /\ thr'[t].pc = "fetch"
             /\ thr'[t].expiry_dates = <<expiry_cache[SymbolOf(t)][1]>>]_vars

\* the expiry of the key was resolved and cached today, and the market has
\* not closed since
ResolvedToday(key) ==
    /\ lastStored[key] # None
    /\ lastStored[key][2] = day
    /\ tod < CloseSlot

\* C30: after a successful resolution for a key on a day, every further
\* resolution for the key on that day before the market close is served from
\* the cache: no call of the expiry-list endpoint is made.
C30_NoExpiryListCallAfterResolution ==
    [][\A t \in workers :
          (/\ api_token # NoToken
           /\ \E reply \in ContractReplies :
                 \/ all_expiries_attempt(t, reply)
                 \/ latest_expiry_attempt(t, reply))
          => ~ResolvedToday(SymbolOf(t))]_vars

\* C25: if every symbol of a batch reports a rate limit, the scheduler sleeps
\* the cooldown of 30 s before it submits the next batch.
C25_CooldownAfterRateLimitedBatch ==
    [][(slowPc = "wait" /\ slowPc' = "submit" /\ limited_only)
          => cooldown' = 30]_vars

\* the dates of the contract list that are today or later
FutureListed ==
    {d \in ExpiriesOf(resolve_call.contracts) : d >= resolve_call.today}

\* C31: for every contract list the resolver's result is in strictly
\* ascending date order (so without duplicates), holds only dates of the list
\* that are today or later, has at most maxCount entries, and consists of the
\* earliest such dates; the single-expiry resolver returns the earliest one.
C31_ResolverResult ==
    resolve_call.called =>
       LET ret == resolve_call.all
           n == Cardinality(FutureListed)
       IN  /\ \A i \in 1..(Len(ret) - 1) : ret[i] < ret[i + 1]
           /\ \A i \in 1..Len(ret) : ret[i] \in FutureListed
           /\ Len(ret) = IF n < resolve_call.max_count THEN n
                         ELSE resolve_call.max_count
           /\ \A d \in FutureListed :
                 (\A i \in 1..Len(ret) : ret[i] # d)
                    => \A i \in 1..Len(ret) : ret[i] < d
           /\ IF n = 0 THEN resolve_call.latest = None
              ELSE /\ resolve_call.latest # None
                   /\ resolve_call.latest[1] \in FutureListed
                   /\ \A d \in FutureListed : resolve_call.latest[1] <= d

\* a list with a past date, a repeated date and three future dates, of which
\* the two earliest are returned
C31_Witness ==
    /\ resolve_call.called
    /\ resolve_call.contracts = <<3, 1, 1, 2>>
    /\ resolve_call.today = 1
    /\ resolve_call.max_count = 2
    /\ resolve_call.all = <<1, 2>>
    /\ resolve_call.latest = <<1>>

\* |f| <= c for a fraction f with a positive denominator and c = <<n, d>>
Within(f, n, d) == Abs(f[1]) * d <= n * f[2]

\* C32: every velocity and acceleration written to a row lies within the cap
\* of the symbol's class: for an index |OI velocity| <= 1666,
\* |IV velocity| <= 0.16, |OI acceleration| <= 166; for a stock 100000, 10 and
\* 10000; and the acceleration is 0 unless 2 distinct prior rows exist.
C32_RatesWithinClassCaps ==
    (rate_call.called /\ ~rate_call.raised) =>
       LET r == rate_call.ret IN
       /\ IF rate_call.is_index
            THEN /\ Within(r.oi_velocity, 1666, 1)
                 /\ Within(r.iv_velocity, 16, 100)
                 /\ Within(r.oi_acceleration, 166, 1)
            ELSE /\ Within(r.oi_velocity, 100000, 1)
                 /\ Within(r.iv_velocity, 10, 1)
                 /\ Within(r.oi_acceleration, 10000, 1)
       /\ rate_call.distinct < 2 => r.oi_acceleration[1] = 0

\* a row of a stock whose OI velocity and OI acceleration are at their caps
C32_Witness ==
    /\ rate_call.called
    /\ ~rate_call.raised
    /\ ~rate_call.is_index
    /\ rate_call.distinct >= 2
    /\ rate_call.ret.oi_velocity = <<100000, 1>>
    /\ rate_call.ret.oi_acceleration = <<10000, 1>>

\* the OI acceleration of the call, the number of historical accelerations,
\* and the sub-signal of a call whose acceleration is the opposite one
CallAcceleration ==
    LET h == Column(detect_call.historical_data, "atm_oi")
        n == Len(h)
    IN  (detect_call.current_data.atm_oi - h[n - 1]) - (h[n - 1] - h[n - 2])

Accelerations == Len(detect_call.historical_data) - 2

MirroredAccel ==
    oi_accel_signal(detect_call.current_data.atm_oi - 2 * CallAcceleration,
                    Column(detect_call.historical_data, "atm_oi"))

\* the acceleration is negative and beyond the threshold of the tier: below
\* -2 sigma, below the 25th percentile, or larger than the absolute fallback
\* of 1000 contracts
RapidUnwinding ==
    /\ Accelerations >= 1
    /\ ~detect_call.ret.raised
    /\ CallAcceleration < 0
    /\ IF Accelerations >= 3
         THEN \E i \in 1..Len(detect_call.ret.triggers) :
                 detect_call.ret.triggers[i]
                    \in {"OI Unwinding", "OI Unwinding (<P25)"}
         ELSE 0 - CallAcceleration > 1000 \div OiUnit

\* the opposite acceleration is a buildup beyond the threshold of the tier
MirroredRapidBuildup ==
    IF Accelerations >= 3
      THEN MirroredAccel.trig \in {<<"OI Buildup">>, <<"OI Buildup (>P75)">>}
      ELSE 0 - CallAcceleration > 1000 \div OiUnit

\* C33: in every tier of the OI-acceleration sub-signal (z-score, percentile,
\* absolute fallback) a rapid unwinding yields a strictly higher sub-signal
\* than a rapid buildup of the same magnitude.
C33_UnwindingAboveBuildup ==
    (Detected /\ RapidUnwinding /\ MirroredRapidBuildup) =>
       detect_call.ret.signals.oi_accel > MirroredAccel.s


\* the stored row of the observation that immediately precedes the run
PrecedingObservation == RowsDesc(signal_call.stored)[1]

OppositeSigns(a, b) == (a > 0 /\ b < 0) \/ (a < 0 /\ b > 0)

\* C34: in the pipeline the GEX sign-flip sub-signal compares the current net
\* GEX with the net GEX of the immediately preceding observation (the most
\* recent stored row), not with an older row of the history: the sub-signal
\* is set exactly when those two have opposite signs.
C34_FlipAgainstPrecedingObservation ==
    (signal_call.detected /\ signal_call.historical_data # <<>>) =>
       (signal_call.ret.signals.gex_flip > 0
          <=> OppositeSigns(PrecedingObservation.net_gex,
                            signal_call.current_data.net_gex))

\* the change in OI the snapshot reports over the ITM strikes of one side, in
\* contracts: calls below the spot, puts above it
SnapshotItmChange(ce_side) ==
    LET d == signal_call.option_data
    IN  OiUnit * SeqSum([i \in 1..Len(d) |->
           IF ce_side /\ d[i].strike_price < signal_call.spot_price
             THEN d[i].ce_oi - d[i].ce_prev_oi
           ELSE IF ~ce_side /\ d[i].strike_price > signal_call.spot_price
             THEN d[i].pe_oi - d[i].pe_prev_oi
           ELSE 0])

\* C35: in the pipeline the ITM change in OI of each side, derived from the
\* fetched snapshot, feeds the direction score: ITM call OI that fell adds 2
\* or 3 to the score of the signal that is stored, ITM put OI that fell
\* takes 2 or 3 off it.
C35_SnapshotItmChangeInScore ==
    (signal_call.detected /\ ~signal_call.ret.raised) =>
       signal_call.ret.direction_score =
          direction_score(
             [signal_call.current_data EXCEPT
                 !.ce_itm_chg_oi = SnapshotItmChange(TRUE),
                 !.pe_itm_chg_oi = SnapshotItmChange(FALSE)],
             signal_call.historical_data)

\* a thread has returned from _process_symbol
Returned(w) == w.pc = "idle" /\ w.result \in {"true", "false"}

\* C36: every fetch cycle that reports success for a (symbol, expiry) has
\* written one summary row with its blast signal, and a cycle that reports
\* failure has written none: at the return of _process_symbol the expiries
\* whose cycle returned True are those for which a row was written.
C36_SummaryRowIffSuccess ==
    \A t \in workers :
       Returned(thr[t]) => thr[t].summary_idx = thr[t].ok_idx

\* a store write of the call that has returned failed
StoreWriteFailed(w) == Returned(w) /\ w.store_failed # {}

RunsInFlight(s) ==
    slowRunning[s]
      + (IF fastInFlight /\ fastIdx <= Len(fastSymbols)
              /\ fastSymbols[fastIdx] = s THEN 1 ELSE 0)

\* C38: at every moment at most one pipeline run is in flight for a symbol,
\* and so for each of its expiries, which one run processes one after
\* another: a symbol is submitted once per pass, a pass is only left when
\* its futures have completed, and the two loops share no symbol.
C38_OneRunPerSymbol ==
    /\ \A s \in AllSymbols : RunsInFlight(s) <= 1
    /\ \A s \in realtime_indices : slowRunning[s] = 0
    /\ (slowPc # "pass" => PassJoined)

\* both stocks of a pass and an index are in flight at once
C38_Witness ==
    /\ \A s \in StockUniverse : slowRunning[s] = 1
    /\ fastInFlight
    /\ RunsInFlight(fastSymbols[fastIdx]) = 1

\* C39: symbol-level failures never reach the failure budget of the main
\* loop: a future that completes, whatever _process_symbol returned, leaves
\* the consecutive-failure counter and the loop alone; a pass under way ends
\* by returning, never in the handler of the loop; and when the pass
\* returns, also one in which every symbol failed, the counter is set to 0
\* and the loop keeps running.
C39_FailuresOutsideBudget ==
    [][/\ (tasks' # tasks =>
              /\ consecutive_errors' = consecutive_errors
              /\ slowErr' = slowErr
              /\ running' = running
              /\ stopCause' = stopCause)
       /\ (slowPc \in {"submit", "wait"} =>
              slowPc' \in {"submit", "wait", "cadence"})
       /\ (slowPc = "wait" /\ slowPc' = "cadence" =>
              /\ consecutive_errors' = 0
              /\ running'
              /\ stopCause' = "none")]_vars

\* a pass of 43 symbols has returned, every symbol failed at the rate limit,
\* the counter is 0 and the loop goes on
C39_Witness ==
    /\ slowPc = "cadence"
    /\ Finished(0) = batch_size
    /\ limited_only
    /\ consecutive_errors = 0
    /\ running
    /\ stopCause = "none"

\* C40: in detect_gamma_blast every detected sign flip of the gamma exposure
\* (previous and current non-zero with opposite signs) gives the GEX-flip
\* sub-signal 1.0 with the 'Strong' trigger: the magnitude of the flip always
\* exceeds half of the previous exposure, so the branch of 0.6 is never
\* taken.
C40_EveryFlipIsStrong ==
    Detected =>
       /\ SignFlip => (FlipExceedsHalf
                         /\ detect_call.ret.signals.gex_flip = 100)
       /\ detect_call.ret.signals.gex_flip \in {0, 100}
       /\ \A i \in 1..Len(detect_call.ret.triggers) :
             detect_call.ret.triggers[i] # "GEX Flip Detected"

\* previous exposure +500 thousand, current -1 thousand: the smallest flip
C40_Witness ==
    /\ Detected
    /\ SignFlip
    /\ detect_call.historical_data[Len(detect_call.historical_data)].net_gex
          = 500
    /\ detect_call.current_data.net_gex = -1
    /\ detect_call.ret.signals.gex_flip = 100
====
